---- MODULE Spec2Model ----
(***************************************************************************)
(* Layout-reconstruction core of ocr-rust (src/ocr-rust/src/main.rs):      *)
(* tag cleaning, block classification, the OCR-markdown parser, and the    *)
(* coordinate-mode and plain-mode layout engines.                          *)
(*                                                                         *)
(* Text is a sequence of one-character strings, so that prefix tests,      *)
(* trimming, splitting and the regular expressions of the source are       *)
(* computed character by character.  Lengths are byte lengths (str::len).  *)
(***************************************************************************)
EXTENDS Integers, Sequences, FiniteSets, TLC

VARIABLES
    pc,                          \* position of the running operation
    arg, ret,                    \* a classifier/cleaner call: argument, result
    lines, i,                    \* the line scan of the running function: lines, index
    blocks,                      \* parse_ocr_blocks: the blocks emitted
    next_block_needs_page_break, \* parse_ocr_blocks: pending-break flag
    current_image_index,         \* parse_ocr_blocks: current image index
    sorted_blocks, bi,           \* convert_with_coordinates: processing order, position
    page_start_y,                \* convert_with_coordinates: logical top of the page
    last_y_left, last_y_right,   \* convert_with_coordinates: last position per column
    prev_block_y,                \* convert_with_coordinates: raw y of the previous block
    force_new_page,              \* convert_with_coordinates: a break is pending
    y_position,                  \* convert_plain_text: the vertical cursor
    page,                        \* number of the current page (1 is the first)
    draws,                       \* the draw commands issued, in order
    out_file                     \* what is at the output path

callVars == <<arg, ret>>
parserVars == <<lines, i, blocks, next_block_needs_page_break, current_image_index>>
coordVars ==
    <<sorted_blocks, bi, page_start_y, last_y_left, last_y_right, prev_block_y, force_new_page>>
docVars == <<page, draws, out_file>>
layoutVars == <<coordVars, y_position, docVars>>
vars == <<pc, callVars, parserVars, layoutVars>>

(***************************************************************************)
(* Characters and strings                                                  *)
(***************************************************************************)
NL == "\n"
TAB == "\t"
\* the checkbox glyph U+2610 and the bullet glyph U+2022, one character each
CHECKBOX == "U+2610"
BULLET == "U+2022"

\* The element of a one-element set.  Once({e : x \in {v}}) computes v one time
\* and names it x in e, however often e reads x.
Once(S) == CHOOSE v \in S : TRUE

\* char::is_whitespace on the characters that occur in the inputs
IsWs(c) == c \in {" ", TAB, NL}

\* char::is_numeric / regex \d on the characters that occur in the inputs
IsDigit(c) == c \in {"0", "1", "2", "3", "4", "5", "6", "7", "8", "9"}

\* UTF-8 length of one character
CharBytes(c) == IF c \in {CHECKBOX, BULLET} THEN 3 ELSE 1

\* str::len: the length in bytes
ByteLen(s_) ==
    Once({(
    Len(s) + 2 * Cardinality({k \in 1..Len(s) : CharBytes(s[k]) = 3})
    ) : s \in {s_}})

Min(a, b) == IF a < b THEN a ELSE b
Max(a, b) == IF a > b THEN a ELSE b

\* s[from..to] as a sequence (empty when from > to)
Slice(s_, from_, to_) ==
    Once({(
    IF from > to THEN <<>> ELSE SubSeq(s, from, to)
    ) : s \in {s_}, from \in {from_}, to \in {to_}})

\* does p occur in s at position k (1-based)
MatchAt(s_, k_, p_) ==
    Once({(
    /\ k >= 1
    /\ k + Len(p) - 1 <= Len(s)
    /\ \A n \in 1..Len(p) : s[k + n - 1] = p[n]
    ) : s \in {s_}, k \in {k_}, p \in {p_}})

StartsWith(s, p) == MatchAt(s, 1, p)
EndsWith(s_, p_) ==
    Once({(
    MatchAt(s, Len(s) - Len(p) + 1, p)
    ) : s \in {s_}, p \in {p_}})

\* str::find from position `from`: first position of p, 0 when absent
FindFrom(s_, p_, from_) ==
    Once({(
    LET hits == {k \in from..(Len(s) - Len(p) + 1) : MatchAt(s, k, p)}
    IN  IF hits = {} THEN 0 ELSE CHOOSE k \in hits : \A m \in hits : k <= m
    ) : s \in {s_}, p \in {p_}, from \in {from_}})

Find(s, p) == FindFrom(s, p, 1)
Contains(s, p) == Find(s, p) # 0

\* str::trim_start, str::trim_end, str::trim
TrimStart(s_) ==
    Once({(
    LET keep == {k \in 1..Len(s) : ~IsWs(s[k])}
    IN  IF keep = {} THEN <<>>
        ELSE Slice(s, CHOOSE k \in keep : \A m \in keep : k <= m, Len(s))
    ) : s \in {s_}})

TrimEnd(s_) ==
    Once({(
    LET keep == {k \in 1..Len(s) : ~IsWs(s[k])}
    IN  IF keep = {} THEN <<>>
        ELSE Slice(s, 1, CHOOSE k \in keep : \A m \in (k + 1)..Len(s) : IsWs(s[m]))
    ) : s \in {s_}})

Trim(s) == TrimEnd(TrimStart(s))

\* split on every occurrence of the character c (str::split with a char)
RECURSIVE SplitChar(_, _)
SplitChar(s_, c_) ==
    Once({(
    LET k == Find(s, <<c>>)
    IN  IF k = 0 THEN <<s>>
        ELSE <<Slice(s, 1, k - 1)>> \o SplitChar(Slice(s, k + 1, Len(s)), c)
    ) : s \in {s_}, c \in {c_}})

\* str::lines: split on newline, a final empty piece is not a line
StrLines(s) ==
    LET parts == SplitChar(s, NL)
    IN  IF parts[Len(parts)] = <<>> THEN Slice(parts, 1, Len(parts) - 1) ELSE parts

\* str::split_whitespace
RECURSIVE SplitWhitespace(_)
SplitWhitespace(s_) ==
    Once({(
    LET t == TrimStart(s)
        ws == {k \in 1..Len(t) : IsWs(t[k])}
        e == IF ws = {} THEN Len(t) + 1 ELSE CHOOSE k \in ws : \A m \in ws : k <= m
    IN  IF t = <<>> THEN <<>>
        ELSE <<Slice(t, 1, e - 1)>> \o SplitWhitespace(Slice(t, e, Len(t)))
    ) : s \in {s_}})

\* [String]::join
RECURSIVE Join(_, _)
Join(parts_, sep_) ==
    Once({(
    IF parts = <<>> THEN <<>>
    ELSE IF Len(parts) = 1 THEN parts[1]
    ELSE parts[1] \o sep \o Join(Tail(parts), sep)
    ) : parts \in {parts_}, sep \in {sep_}})

\* concatenation of a sequence of strings
Concat(parts) == Join(parts, <<>>)

\* str::to_lowercase on the letters that occur in the inputs
LowerChar(c) ==
    CASE c = "T" -> "t" [] c = "R" -> "r" [] c = "D" -> "d" [] c = "H" -> "h"
      [] c = "A" -> "a" [] c = "B" -> "b" [] c = "L" -> "l" [] c = "E" -> "e"
      [] OTHER -> c

ToLower(s_) ==
    Once({(
    [k \in 1..Len(s) |-> LowerChar(s[k])]
    ) : s \in {s_}})

\* every sequence over S of length at most n
SeqUpTo(S_, n_) ==
    Once({(
    UNION {[1..m -> S] : m \in 0..n}
    ) : S \in {S_}, n \in {n_}})

(***************************************************************************)
(* Block Classifier                                                        *)
(***************************************************************************)
\* is_list_item (main.rs 705-745)
is_list_item(text_) ==
    Once({(
    LET trimmed == TrimStart(text)
    IN  \/ StartsWith(trimmed, <<CHECKBOX, " ">>)
        \/ StartsWith(trimmed, <<BULLET, " ">>)
        \/ /\ StartsWith(trimmed, <<"*", " ">>)
           /\ ~StartsWith(trimmed, <<"*", " ", "*">>)
        \/ /\ StartsWith(trimmed, <<"-", " ">>)
           /\ ByteLen(trimmed) > 2
           /\ ~StartsWith(trimmed, <<"-", "-", "-">>)
        \/ /\ ByteLen(trimmed) > 2
           /\ Len(trimmed) >= 3
           /\ IsDigit(trimmed[1])
           /\ trimmed[2] \in {".", ")"}
           /\ IsWs(trimmed[3])
    ) : text \in {text_}})

\* width of the header-level counter: level is a u8 (main.rs 864)
U8Max == 255
\* result of the counting loop when `level += 1` overflows with overflow checks on
PANIC == -1

\* the length of the run of '#' that starts the text
HashRun(s_) ==
    Once({(
    LET others == {k \in 1..Len(s) : s[k] # "#"}
    IN  IF others = {} THEN Len(s) ELSE (CHOOSE k \in others : \A m \in others : k <= m) - 1
    ) : s \in {s_}})

\* the counting loop of parse_markdown_headers (main.rs 868-877): the u8 counter is
\* incremented once per '#' of the run, then a blank keeps it and any other
\* character resets it; checks: the build has overflow checks (debug) or wraps (release)
CountHashes(s_, checks_) ==
    Once({(
    LET run == HashRun(s)
    IN  IF checks /\ run > U8Max THEN PANIC
        ELSE IF run < Len(s) /\ ~IsWs(s[run + 1]) THEN 0
        ELSE run % (U8Max + 1)
    ) : s \in {s_}, checks \in {checks_}})

\* str::trim_start_matches('#')
TrimStartHashes(s_) ==
    Once({(
    Slice(s, HashRun(s) + 1, Len(s))
    ) : s \in {s_}})

\* parse_markdown_headers (main.rs 860-886): [panic, text, level]
parse_markdown_headers(text_, checks_) ==
    Once({(
    LET trimmed == Trim(text)
        level == CountHashes(trimmed, checks)
    IN  IF level = PANIC THEN [panic |-> TRUE, text |-> <<>>, level |-> 0]
        ELSE IF level > 0 /\ level <= 6
             THEN [panic |-> FALSE, text |-> Trim(TrimStartHashes(trimmed)), level |-> level]
        ELSE [panic |-> FALSE, text |-> text, level |-> 0]
    ) : text \in {text_}, checks \in {checks_}})

\* split on every occurrence of the string p (str::split with a &str)
RECURSIVE SplitStr(_, _)
SplitStr(s_, p_) ==
    Once({(
    LET k == Find(s, p)
    IN  IF k = 0 THEN <<s>>
        ELSE <<Slice(s, 1, k - 1)>> \o SplitStr(Slice(s, k + Len(p), Len(s)), p)
    ) : s \in {s_}, p \in {p_}})

\* the regex \d+[\.)]\s matched at position k: position of its last character, 0 when
\* it does not match there (main.rs 760)
NumMarkerEnd(s_, k_) ==
    Once({(
    IF k > Len(s) \/ ~IsDigit(s[k]) THEN 0
    ELSE LET stops == {r \in k..Len(s) : ~IsDigit(s[r])}
             r == IF stops = {} THEN 0 ELSE CHOOSE x \in stops : \A y \in stops : x <= y
         IN  IF r # 0 /\ r + 1 <= Len(s) /\ s[r] \in {".", ")"} /\ IsWs(s[r + 1])
             THEN r + 1 ELSE 0
    ) : s \in {s_}, k \in {k_}})

\* captures_iter of \d+[\.)]\s: the start positions of its successive matches
RECURSIVE NumMarkerStarts(_, _)
NumMarkerStarts(s_, from_) ==
    Once({(
    LET hits == {k \in from..Len(s) : NumMarkerEnd(s, k) # 0}
        k == CHOOSE x \in hits : \A y \in hits : x <= y
    IN  IF hits = {} THEN <<>>
        ELSE <<k>> \o NumMarkerStarts(s, NumMarkerEnd(s, k) + 1)
    ) : s \in {s_}, from \in {from_}})

\* the loop over the numeric captures (main.rs 765-777): [items, last]
RECURSIVE NumChunks(_, _, _, _)
NumChunks(trimmed_, starts_, last_, items_) ==
    Once({(
    IF starts = <<>> THEN [items |-> items, last |-> last]
    ELSE LET start == Head(starts)
             chunk == Slice(trimmed, last, start - 1)
             more == IF start # last /\ Trim(chunk) # <<>> THEN <<Trim(chunk)>> ELSE <<>>
         IN  NumChunks(trimmed, Tail(starts), start, items \o more)
    ) : trimmed \in {trimmed_}, starts \in {starts_}, last \in {last_}, items \in {items_}})

\* rule for numeric markers (main.rs 763-784): the items collected
NumRuleItems(trimmed_) ==
    Once({(
    LET starts == NumMarkerStarts(trimmed, 1)
        r == NumChunks(trimmed, starts, 1, <<>>)
    IN  IF starts = <<>> THEN <<>>
        ELSE IF r.last <= Len(trimmed)
             THEN r.items \o <<Trim(Slice(trimmed, r.last, Len(trimmed)))>>
        ELSE r.items
    ) : trimmed \in {trimmed_}})

\* the symbolic markers, in the order they are tried (main.rs 757)
markers == <<<<CHECKBOX, " ">>, <<BULLET, " ">>, <<"-", " ">>, <<"*", " ">>>>

\* the items pushed for one marker that occurs more than once (main.rs 792-805)
MarkerParts(trimmed_, marker_) ==
    Once({(
    LET parts == SplitStr(trimmed, marker)
        first == IF Trim(parts[1]) = <<>> THEN <<>> ELSE <<Trim(parts[1])>>
    IN  first \o [n \in 1..(Len(parts) - 1) |-> marker \o Trim(parts[n + 1])]
    ) : trimmed \in {trimmed_}, marker \in {marker_}})

\* the loop over the symbolic markers (main.rs 788-810) from marker m on:
\* [returned, items]
RECURSIVE MarkerRule(_, _, _)
MarkerRule(trimmed_, m_, items_) ==
    Once({(
    IF m > Len(markers) THEN [returned |-> FALSE, items |-> items]
    ELSE LET count == Len(SplitStr(trimmed, markers[m])) - 1
             pushed == IF count > 1 THEN items \o MarkerParts(trimmed, markers[m]) ELSE items
         IN  IF count > 1 /\ Len(pushed) > 1
             THEN [returned |-> TRUE, items |-> pushed]
             ELSE MarkerRule(trimmed, m + 1, pushed)
    ) : trimmed \in {trimmed_}, m \in {m_}, items \in {items_}})

\* the non-blank lines, trimmed (main.rs 814-818)
NonBlankLines(s_) ==
    Once({(
    LET ls == StrLines(s)
        F[n \in 0..Len(ls)] ==
            IF n = 0 THEN <<>>
            ELSE IF Trim(ls[n]) = <<>> THEN F[n - 1] ELSE F[n - 1] \o <<Trim(ls[n])>>
    IN  F[Len(ls)]
    ) : s \in {s_}})

\* split_list_items (main.rs 751-826); `items` is one vector shared by all the rules:
\* a holds it after the numeric rule, b after the symbolic markers.  (The bindings
\* read from the last line up.)
split_list_items(text_) ==
    Once({(
    Once({Once({Once({
        IF Len(a) > 1 THEN a
        ELSE IF b.returned THEN b.items
        ELSE IF /\ is_list_item(trimmed)
                /\ Contains(trimmed, <<NL>>)
                /\ b.items \o NonBlankLines(trimmed) # <<>>
             THEN b.items \o NonBlankLines(trimmed)
        ELSE <<text>>
        : b \in {MarkerRule(trimmed, 1, a)}})
        : a \in {NumRuleItems(trimmed)}})
        : trimmed \in {Trim(text)}})
    ) : text \in {text_}})

\* the regex ^\s*\d+[\.)]\s at the start of t: position of its last character, or 0
LeadingNumMarkerEnd(t_) ==
    Once({(
    LET body == TrimStart(t)
        skipped == Len(t) - Len(body)
        e == NumMarkerEnd(body, 1)
    IN  IF e = 0 THEN 0 ELSE skipped + e
    ) : t \in {t_}})

\* strip_leading_marker (main.rs 828-842)
strip_leading_marker(s_) ==
    Once({(
    LET t == Trim(s)
    IN  IF \E m \in 1..Len(markers) : StartsWith(t, markers[m])
        THEN TrimStart(Tail(t))
        ELSE IF LeadingNumMarkerEnd(t) # 0
             THEN Trim(Slice(t, LeadingNumMarkerEnd(t) + 1, Len(t)))
        ELSE t
    ) : s \in {s_}})

\* first position >= from where one of `lits` occurs in s, 0 when none does
FindAnyFrom(s_, lits_, from_) ==
    Once({(
    LET heads == {p[1] : p \in lits}
        hits == {k \in from..Len(s) : s[k] \in heads /\ \E p \in lits : MatchAt(s, k, p)}
    IN  IF hits = {} THEN 0 ELSE CHOOSE k \in hits : \A m \in hits : k <= m
    ) : s \in {s_}, lits \in {lits_}, from \in {from_}})

\* Regex::replace_all for a regex that is an alternation of literals: scanning from
\* the left, every occurrence of one of `lits` becomes `by`
RECURSIVE ReplaceLits(_, _, _)
ReplaceLits(s_, lits_, by_) ==
    Once({(
    LET k == FindAnyFrom(s, lits, 1)
        p == CHOOSE x \in lits : MatchAt(s, k, x)
    IN  IF k = 0 THEN s
        ELSE Slice(s, 1, k - 1) \o by
             \o ReplaceLits(Slice(s, k + Len(p), Len(s)), lits, by)
    ) : s \in {s_}, lits \in {lits_}, by \in {by_}})

\* the literals of </?center> and of </?(?:table|tr|td|th|thead|tbody)> (main.rs 846-847)
CenterTags == {<<"<", "c", "e", "n", "t", "e", "r", ">">>, <<"<", "/", "c", "e", "n", "t", "e", "r", ">">>}
TableTags ==
    {<<"<", "t", "a", "b", "l", "e", ">">>, <<"<", "/", "t", "a", "b", "l", "e", ">">>, <<"<", "t", "r", ">">>, <<"<", "/", "t", "r", ">">>, <<"<", "t", "d", ">">>, <<"<", "/", "t", "d", ">">>,
     <<"<", "t", "h", ">">>, <<"<", "/", "t", "h", ">">>, <<"<", "t", "h", "e", "a", "d", ">">>, <<"<", "/", "t", "h", "e", "a", "d", ">">>, <<"<", "t", "b", "o", "d", "y", ">">>, <<"<", "/", "t", "b", "o", "d", "y", ">">>}

\* parse_html_tags (main.rs 844-858): [text, centered]
parse_html_tags(text_) ==
    Once({(
    [text |-> Trim(ReplaceLits(ReplaceLits(text, CenterTags, <<>>), TableTags, <<" ">>)),
     centered |-> Contains(text, <<"<", "c", "e", "n", "t", "e", "r", ">">>)]
    ) : text \in {text_}})

\* captures_iter of (?si)<open>(.*?)<close> over s, the tags taken from the sets
\* `opens` and `closes` of equally long literals: the captured bodies, in order
RECURSIVE PairBodies(_, _, _, _)
PairBodies(s_, opens_, closes_, from_) ==
    Once({(
    LET low == ToLower(s)
        olen == Len(CHOOSE p \in opens : TRUE)
        clen == Len(CHOOSE p \in closes : TRUE)
        o == FindAnyFrom(low, opens, from)
        c == IF o = 0 THEN 0 ELSE FindAnyFrom(low, closes, o + olen)
    IN  IF o = 0 \/ c = 0 THEN <<>>
        ELSE <<Slice(s, o + olen, c - 1)>> \o PairBodies(s, opens, closes, c + clen)
    ) : s \in {s_}, opens \in {opens_}, closes \in {closes_}, from \in {from_}})

\* the cells of one row body, trimmed (main.rs 896-900)
RowCells(row_body_) ==
    Once({(
    LET cells == PairBodies(row_body, {<<"<", "t", "d", ">">>, <<"<", "t", "h", ">">>}, {<<"<", "/", "t", "d", ">">>, <<"<", "/", "t", "h", ">">>}, 1)
    IN  [n \in 1..Len(cells) |-> Trim(cells[n])]
    ) : row_body \in {row_body_}})

\* parse_table_html (main.rs 888-906)
parse_table_html(table_html_) ==
    Once({(
    LET bodies == PairBodies(table_html, {<<"<", "t", "r", ">">>}, {<<"<", "/", "t", "r", ">">>}, 1)
        F[n \in 0..Len(bodies)] ==
            IF n = 0 THEN <<>>
            ELSE IF RowCells(bodies[n]) = <<>> THEN F[n - 1]
            ELSE F[n - 1] \o <<RowCells(bodies[n])>>
    IN  F[Len(bodies)]
    ) : table_html \in {table_html_}})

(***************************************************************************)
(* Calls of the classifier functions on bounded inputs                     *)
(***************************************************************************)
MaxListPieces == 3
MaxHashRun == 8
MaxHtmlPieces == 3
MaxTablePieces == 4

NoRet == [panic |-> FALSE]
ParserIdle ==
    /\ lines = <<>>
    /\ i = 0
    /\ blocks = <<>>
    /\ next_block_needs_page_break = FALSE
    /\ current_image_index = 0

LayoutIdle ==
    /\ sorted_blocks = <<>>
    /\ bi = 0
    /\ page_start_y = 0
    /\ last_y_left = 0
    /\ last_y_right = 0
    /\ prev_block_y = 0
    /\ force_new_page = FALSE
    /\ y_position = 0
    /\ page = 0
    /\ draws = <<>>
    /\ out_file = "absent"

\* list texts: concatenations of marker-bearing fragments
ListPieces ==
    {<<"1", ".", " ", "A">>, <<" ", "2", ".", " ", "B">>, <<"1", "2", ".", " ", "C">>, <<"3", ")", " ", "D">>, <<"-", " ", "E">>, <<" ", "-", " ", "F">>, <<BULLET, " ", "G">>,
     <<" ", BULLET, " ", "H">>, <<"*", " ", "I">>, <<CHECKBOX, " ", "J">>, <<NL>>, <<" ">>, <<"-">>, <<"*">>, <<"1", "x">>}
ListTexts == {Concat(p) : p \in SeqUpTo(ListPieces, MaxListPieces)}

\* header texts: optional leading blank, a run of '#', a tail
Hashes(n_) ==
    Once({(
    [k \in 1..n |-> "#"]
    ) : n \in {n_}})
HashRuns == (0..MaxHashRun) \cup {U8Max, U8Max + 1, U8Max + 2}
HeaderTails == {<<>>, <<" ">>, <<" ", "T", "i", "t", "l", "e">>, <<"N", "o", "S", "p", "a", "c", "e">>, <<TAB, "T">>, <<" ", "T", " ">>, <<" ", "T", " ", "#">>}
HeaderTexts ==
    {lead \o Hashes(n) \o tail : lead \in {<<>>, <<" ">>}, n \in HashRuns, tail \in HeaderTails}

\* texts with HTML wrapper tags, whole and in fragments
HtmlPieces ==
    {<<"<", "c", "e", "n", "t", "e", "r", ">">>, <<"<", "/", "c", "e", "n", "t", "e", "r", ">">>, <<"<", "t", "d", ">">>, <<"<", "/", "t", "d", ">">>, <<"<", "t", "a", "b", "l", "e", ">">>, <<"<", "t", "h", "e", "a", "d", ">">>,
     <<"A">>, <<" ">>, <<"<", "c", "e", "n">>, <<"t", "e", "r", ">">>}
HtmlTexts == {Concat(p) : p \in SeqUpTo(HtmlPieces, MaxHtmlPieces)}

\* table texts (the callers pass a text that holds <table>): a token sequence
\* <table> body </table>?, the body made of row tags,
\* whole cells and unmatched cell tags
TableBodyPieces ==
    {<<<<"<", "t", "r", ">">>>>, <<<<"<", "/", "t", "r", ">">>>>, <<<<"<", "t", "d", ">">>, <<"A">>, <<"<", "/", "t", "d", ">">>>>,
     <<<<"<", "T", "H", ">">>, <<" ", "B", " ">>, <<"<", "/", "T", "H", ">">>>>, <<<<"<", "t", "d", ">">>, <<"C">>>>, <<<<"<", "/", "t", "d", ">">>>>}
TableTokens ==
    {<<<<"<", "t", "a", "b", "l", "e", ">">>>> \o Concat(p)
        \o (IF close THEN <<<<"<", "/", "t", "a", "b", "l", "e", ">">>>> ELSE <<>>) :
        close \in BOOLEAN, p \in SeqUpTo(TableBodyPieces, MaxTablePieces)}

Calls ==
    {[fn |-> "is_list_item", text |-> t, toks |-> <<>>] : t \in ListTexts}
    \cup {[fn |-> "split_list_items", text |-> t, toks |-> <<>>] :
            t \in {x \in ListTexts : is_list_item(x)}}
    \cup {[fn |-> "parse_markdown_headers", text |-> t, toks |-> <<>>] : t \in HeaderTexts}
    \cup {[fn |-> "parse_html_tags", text |-> t, toks |-> <<>>] : t \in HtmlTexts}
    \cup {[fn |-> "parse_table_html", text |-> Concat(p), toks |-> p] : p \in TableTokens}

InitClassifier ==
    /\ pc = "call"
    /\ arg \in Calls
    /\ ret = NoRet
    /\ ParserIdle
    /\ LayoutIdle

Call_is_list_item ==
    /\ pc = "call" /\ arg.fn = "is_list_item"
    /\ ret' = [panic |-> FALSE, val |-> is_list_item(arg.text)]
    /\ pc' = "return"
    /\ UNCHANGED <<arg, parserVars, layoutVars>>

Call_split_list_items ==
    /\ pc = "call" /\ arg.fn = "split_list_items"
    /\ ret' = [panic |-> FALSE, items |-> split_list_items(arg.text)]
    /\ pc' = "return"
    /\ UNCHANGED <<arg, parserVars, layoutVars>>

\* the callers strip the marker of every item before rendering it (main.rs 1556, 1722)
Call_strip_leading_marker ==
    /\ pc = "return" /\ arg.fn = "split_list_items"
    /\ ret' = [panic |-> FALSE, items |-> ret.items,
               stripped |-> [n \in 1..Len(ret.items) |-> strip_leading_marker(ret.items[n])]]
    /\ pc' = "stripped"
    /\ UNCHANGED <<arg, parserVars, layoutVars>>

Call_parse_markdown_headers ==
    /\ pc = "call" /\ arg.fn = "parse_markdown_headers"
    /\ \E checks \in BOOLEAN : ret' = parse_markdown_headers(arg.text, checks)
    /\ pc' = "return"
    /\ UNCHANGED <<arg, parserVars, layoutVars>>

Call_parse_html_tags ==
    /\ pc = "call" /\ arg.fn = "parse_html_tags"
    /\ ret' = [panic |-> FALSE] @@ parse_html_tags(arg.text)
    /\ pc' = "return"
    /\ UNCHANGED <<arg, parserVars, layoutVars>>

Call_parse_table_html ==
    /\ pc = "call" /\ arg.fn = "parse_table_html"
    /\ ret' = [panic |-> FALSE, rows |-> parse_table_html(arg.text)]
    /\ pc' = "return"
    /\ UNCHANGED <<arg, parserVars, layoutVars>>

NextClassifier ==
    \/ Call_is_list_item
    \/ Call_split_list_items
    \/ Call_strip_leading_marker
    \/ Call_parse_markdown_headers
    \/ Call_parse_html_tags
    \/ Call_parse_table_html

SpecClassifier == InitClassifier /\ [][NextClassifier]_vars

(***************************************************************************)
(* Claims about the classifier                                             *)
(***************************************************************************)
\* length of the run of characters satisfying the digit test at the start of t
LeadingDigits(t_) ==
    Once({(
    LET stops == {r \in 1..Len(t) : ~IsDigit(t[r])}
    IN  IF stops = {} THEN Len(t) ELSE (CHOOSE x \in stops : \A y \in stops : x <= y) - 1
    ) : t \in {t_}})

\* the list predicate as the specification states it
ListPredicateStated(text_) ==
    Once({(
    LET t == TrimStart(text)
        d == LeadingDigits(t)
    IN  \/ StartsWith(t, <<CHECKBOX, " ">>)
        \/ StartsWith(t, <<BULLET, " ">>)
        \/ StartsWith(t, <<"-", " ">>) /\ Len(t) > 2
        \/ StartsWith(t, <<"*", " ">>) /\ ~StartsWith(t, <<"*", " ", "*">>)
        \/ d >= 1 /\ Len(t) >= d + 2 /\ t[d + 1] \in {".", ")"} /\ IsWs(t[d + 2])
    ) : text \in {text_}})

\* C7: is_list_item(text) is true iff, after trimming leading whitespace, the text
\* starts with a checkbox, bullet, dash or asterisk marker followed by a space (a bare
\* "- ", a dash run and "* *" excepted) or with one or more digits, then '.' or ')',
\* then whitespace.
C7_ListPredicate ==
    (pc = "return" /\ arg.fn = "is_list_item") => (ret.val = ListPredicateStated(arg.text))

\* the split rules as the specification states them, each starting from no items
StatedNumItems(t_) ==
    Once({(
    LET starts == NumMarkerStarts(t, 1)
        lead == Trim(Slice(t, 1, starts[1] - 1))
        item(n) == Trim(Slice(t, starts[n],
                              IF n = Len(starts) THEN Len(t) ELSE starts[n + 1] - 1))
    IN  (IF lead = <<>> THEN <<>> ELSE <<lead>>) \o [n \in 1..Len(starts) |-> item(n)]
    ) : t \in {t_}})

StatedMarkerItems(t_, marker_) ==
    Once({(
    LET parts == SplitStr(t, marker)
    IN  (IF Trim(parts[1]) = <<>> THEN <<>> ELSE <<Trim(parts[1])>>)
        \o [n \in 1..(Len(parts) - 1) |-> marker \o Trim(parts[n + 1])]
    ) : t \in {t_}, marker \in {marker_}})

SplitStated(text_) ==
    Once({(
    LET t == Trim(text)
        recurring == {m \in 1..Len(markers) : Len(SplitStr(t, markers[m])) - 1 >= 2}
        m == CHOOSE x \in recurring : \A y \in recurring : x <= y
    IN  IF Len(NumMarkerStarts(t, 1)) >= 2 THEN StatedNumItems(t)
        ELSE IF recurring # {} THEN StatedMarkerItems(t, markers[m])
        ELSE IF Contains(t, <<NL>>) THEN NonBlankLines(t)
        ELSE <<text>>
    ) : text \in {text_}})

\* C8: split_list_items applies its rules in order, first match wins: numbered
\* markers only when the pattern occurs at least twice, else a symbolic marker that
\* occurs at least twice, else line breaks, else the whole text as one item.
C8_SplitRulesInOrder ==
    (pc = "return" /\ arg.fn = "split_list_items") => (ret.items = SplitStated(arg.text))

\* header parsing as the specification states it: [text, level]
HeaderStated(text_) ==
    Once({(
    LET t == TrimStart(text)
        k == Len(t) - Len(TrimStartHashes(t))
    IN  IF k >= 1 /\ k <= 6 /\ Len(t) > k /\ IsWs(t[k + 1])
        THEN [text |-> Trim(Slice(t, k + 1, Len(t))), level |-> k]
        ELSE [text |-> text, level |-> 0]
    ) : text \in {text_}})

\* C9: parse_markdown_headers returns level k and the stripped text exactly when the
\* text starts with a run of k '#', 1 <= k <= 6, immediately followed by whitespace;
\* in every other case it returns level 0 and the input text unmodified.
C9_HeaderLevel ==
    (pc = "return" /\ arg.fn = "parse_markdown_headers") =>
        /\ ~ret.panic
        /\ ret.level = HeaderStated(arg.text).level
        /\ Trim(ret.text) = Trim(HeaderStated(arg.text).text)
        /\ ret.level = 0 => ret.text = arg.text

\* the rows read off the row and cell tokens: (<tr> (<td|th> text </td|th>)* </tr>)*
RECURSIVE RowsStated(_, _, _)
RowsStated(toks_, k_, q_) ==
    Once({(
    IF k > Len(toks) THEN q
    ELSE LET t == ToLower(toks[k])
             bad == [q EXCEPT !.ok = FALSE]
             q2 == CASE t \in {<<"<", "t", "a", "b", "l", "e", ">">>, <<"<", "/", "t", "a", "b", "l", "e", ">">>} -> q
                     [] q.st = "table" ->
                          IF t = <<"<", "t", "r", ">">> THEN [q EXCEPT !.st = "row", !.row = <<>>] ELSE bad
                     [] q.st = "row" ->
                          IF t \in {<<"<", "t", "d", ">">>, <<"<", "t", "h", ">">>}
                          THEN [q EXCEPT !.st = "cell", !.cell = <<>>]
                          ELSE IF t = <<"<", "/", "t", "r", ">">>
                          THEN [q EXCEPT !.st = "table",
                                         !.rows = IF q.row = <<>> THEN @ ELSE @ \o <<q.row>>]
                          ELSE bad
                     [] q.st = "cell" ->
                          IF t \in {<<"<", "/", "t", "d", ">">>, <<"<", "/", "t", "h", ">">>}
                          THEN [q EXCEPT !.st = "row", !.row = @ \o <<Trim(q.cell)>>]
                          ELSE IF t \in TableTags THEN bad
                          ELSE [q EXCEPT !.cell = @ \o toks[k]]
                     [] OTHER -> bad
         IN  RowsStated(toks, k + 1, q2)
    ) : toks \in {toks_}, k \in {k_}, q \in {q_}})

RowsRead(toks) ==
    RowsStated(toks, 1, [st |-> "table", ok |-> TRUE, rows |-> <<>>, row |-> <<>>, cell |-> <<>>])

\* every row and cell tag is matched, and there is a row with a cell
RowsMatched(toks_) ==
    Once({(
    RowsRead(toks).ok /\ RowsRead(toks).st = "table" /\ RowsRead(toks).rows # <<>>
    ) : toks \in {toks_}})

HasTableOpen(toks_) ==
    Once({(
    \E k \in 1..Len(toks) : ToLower(toks[k]) = <<"<", "t", "a", "b", "l", "e", ">">>
    ) : toks \in {toks_}})
HasTableClose(toks_) ==
    Once({(
    \E k \in 1..Len(toks) : ToLower(toks[k]) = <<"<", "/", "t", "a", "b", "l", "e", ">">>
    ) : toks \in {toks_}})

\* C10: parse_table_html returns the rows and trimmed cells, in order, of a table
\* whose table, row and cell tags are all matched, and zero rows for a text with an
\* opening and no closing table tag or with any unmatched or absent row or cell tag.
C10_TableRows ==
    (pc = "return" /\ arg.fn = "parse_table_html") =>
        /\ (HasTableOpen(arg.toks) /\ HasTableClose(arg.toks) /\ RowsMatched(arg.toks))
              => ret.rows = RowsRead(arg.toks).rows
        /\ ((HasTableOpen(arg.toks) /\ ~HasTableClose(arg.toks)) \/ ~RowsMatched(arg.toks))
              => ret.rows = <<>>

(***************************************************************************)
(* Tag cleaning: the regular expressions of clean_markdown and             *)
(* clean_markdown_for_plain, matched on positions of the whole text        *)
(***************************************************************************)
NoMatch == -1

\* ^ under (?m): position k starts a line
LineStart(s_, k_) ==
    Once({(
    k = 1 \/ s[k - 1] = NL
    ) : s \in {s_}, k \in {k_}})

\* position of the last character of the line that holds position k (k - 1 when the
\* line is empty from k on)
LineEnd(s_, k_) ==
    Once({(
    LET nls == {r \in k..Len(s) : s[r] = NL}
    IN  IF nls = {} THEN Len(s) ELSE (CHOOSE x \in nls : \A y \in nls : x <= y) - 1
    ) : s \in {s_}, k \in {k_}})

\* (?s)<open>.*?<close>, or without (?s) where . stops at a newline: the match at k
PairEnd(s_, k_, open_, close_, dotall_) ==
    Once({(
    LET c == FindFrom(s, close, k + Len(open))
    IN  IF ~MatchAt(s, k, open) \/ c = 0 THEN NoMatch
        ELSE IF ~dotall /\ \E r \in (k + Len(open))..(c - 1) : s[r] = NL THEN NoMatch
        ELSE c + Len(close) - 1
    ) : s \in {s_}, k \in {k_}, open \in {open_}, close \in {close_}, dotall \in {dotall_}})

\* Regex::replace_all(.., "") for <open>.*?<close>
RECURSIVE RemovePairs(_, _, _, _, _)
RemovePairs(s_, k_, open_, close_, dotall_) ==
    Once({(
    LET hits == {r \in k..Len(s) : PairEnd(s, r, open, close, dotall) # NoMatch}
        first == CHOOSE x \in hits : \A y \in hits : x <= y
    IN  IF hits = {} THEN Slice(s, k, Len(s))
        ELSE Slice(s, k, first - 1)
             \o RemovePairs(s, PairEnd(s, first, open, close, dotall) + 1, open, close, dotall)
    ) : s \in {s_}, k \in {k_}, open \in {open_}, close \in {close_}, dotall \in {dotall_}})

DET_OPEN == <<"<", "|", "d", "e", "t", "|", ">">>
DET_CLOSE == <<"<", "|", "/", "d", "e", "t", "|", ">">>
REF_OPEN == <<"<", "|", "r", "e", "f", "|", ">">>
REF_CLOSE == <<"<", "|", "/", "r", "e", "f", "|", ">">>
PAGE_BREAK == <<"-", "-", "-", "P", "A", "G", "E", "_", "B", "R", "E", "A", "K", "-", "-", "-">>
IMAGE_INDEX == <<"-", "-", "-", "I", "M", "A", "G", "E", "_", "I", "N", "D", "E", "X", ":">>
DASHES == <<"-", "-", "-">>

\* ^<\|grounding\|>.*$ and its like: a line that starts with the literal tag
GroundingEnd(s_, k_) ==
    Once({(
    IF MatchAt(s, k, <<"<", "|", "g", "r", "o", "u", "n", "d", "i", "n", "g", "|", ">">>) THEN LineEnd(s, k) ELSE NoMatch
    ) : s \in {s_}, k \in {k_}})
ThinkEnd(s_, k_) ==
    Once({(
    IF MatchAt(s, k, <<"<", "|", "t", "h", "i", "n", "k", "|", ">">>) THEN LineEnd(s, k) ELSE NoMatch
    ) : s \in {s_}, k \in {k_}})
OcrEnd(s_, k_) ==
    Once({(
    IF MatchAt(s, k, <<"<", "|", "O", "C", "R", "|", ">">>) THEN LineEnd(s, k) ELSE NoMatch
    ) : s \in {s_}, k \in {k_}})

\* ^<\|[^|]+\|>.*$ : "<|", one or more characters other than '|' (a newline is one),
\* "|>", then the rest of that line
AllTagsEnd(s_, k_) ==
    Once({(
    LET bars == {r \in (k + 2)..Len(s) : s[r] = "|"}
        bar == CHOOSE x \in bars : \A y \in bars : x <= y
    IN  IF ~MatchAt(s, k, <<"<", "|">>) \/ bars = {} THEN NoMatch
        ELSE IF bar > k + 2 /\ bar + 1 <= Len(s) /\ s[bar + 1] = ">"
             THEN LineEnd(s, bar + 2)
        ELSE NoMatch
    ) : s \in {s_}, k \in {k_}})

\* ^[ \t]+$ : a line of spaces and tabs only
EmptyEnd(s_, k_) ==
    Once({(
    LET e == LineEnd(s, k)
    IN  IF e >= k /\ \A r \in k..e : s[r] \in {" ", TAB} THEN e ELSE NoMatch
    ) : s \in {s_}, k \in {k_}})

\* \s*$ from position p under (?m): the greedy run of whitespace, given back to the
\* last place where a line ends; the position of the last character matched
\* (p - 1 for the empty match), NoMatch when no line ends in the run
WsTailEnd(s_, p_) ==
    Once({(
    LET stops == {r \in p..Len(s) : ~IsWs(s[r])}
        q == IF stops = {} THEN Len(s) + 1 ELSE CHOOSE x \in stops : \A y \in stops : x <= y
        nls == {r \in p..(q - 1) : s[r] = NL}
    IN  IF q = Len(s) + 1 THEN Len(s)
        ELSE IF nls = {} THEN NoMatch
        ELSE (CHOOSE x \in nls : \A y \in nls : x >= y) - 1
    ) : s \in {s_}, p \in {p_}})

\* ^---PAGE_BREAK---\s*$
PageBreakEnd(s_, k_) ==
    Once({(
    IF MatchAt(s, k, PAGE_BREAK) THEN WsTailEnd(s, k + Len(PAGE_BREAK)) ELSE NoMatch
    ) : s \in {s_}, k \in {k_}})

\* ^---IMAGE_INDEX:\d+---\s*$ (main.rs 688)
ImageIndexDigitsEnd(s_, k_) ==
    Once({(
    LET p == k + Len(IMAGE_INDEX)
        d == LeadingDigits(Slice(s, p, Len(s)))
    IN  IF MatchAt(s, k, IMAGE_INDEX) /\ d >= 1 /\ MatchAt(s, p + d, DASHES)
        THEN WsTailEnd(s, p + d + Len(DASHES)) ELSE NoMatch
    ) : s \in {s_}, k \in {k_}})

\* ^---IMAGE_INDEX:.*---\s*$ (main.rs 673): the greedy .* leaves the last "---" of the
\* line after which \s*$ matches
ImageIndexAnyEnd(s_, k_) ==
    Once({(
    LET p == k + Len(IMAGE_INDEX)
        js == {j \in p..(LineEnd(s, k) - 2) :
                 MatchAt(s, j, DASHES) /\ WsTailEnd(s, j + Len(DASHES)) # NoMatch}
        j == CHOOSE x \in js : \A y \in js : x >= y
    IN  IF MatchAt(s, k, IMAGE_INDEX) /\ js # {} THEN WsTailEnd(s, j + Len(DASHES))
        ELSE NoMatch
    ) : s \in {s_}, k \in {k_}})

\* the match at k of the line-anchored regex named re: the position of the last
\* character matched, NoMatch when there is none
LineMatchEnd(re_, s_, k_) ==
    Once({(
    CASE re = "re_grounding" -> GroundingEnd(s, k)
      [] re = "re_think" -> ThinkEnd(s, k)
      [] re = "re_ocr" -> OcrEnd(s, k)
      [] re = "re_all_tags" -> AllTagsEnd(s, k)
      [] re = "re_empty" -> EmptyEnd(s, k)
      [] re = "re_page_break" -> PageBreakEnd(s, k)
      [] re = "re_image_index" -> ImageIndexAnyEnd(s, k)
      [] re = "re_image_index_plain" -> ImageIndexDigitsEnd(s, k)
    ) : re \in {re_}, s \in {s_}, k \in {k_}})

\* Regex::replace_all(.., "") for a regex anchored with ^ under (?m): every match
\* that starts a line is removed, scanning from the left
RECURSIVE RemoveAtLineStart(_, _, _)
RemoveAtLineStart(re_, s_, k_) ==
    Once({(
    LET hits == {r \in k..Len(s) :
                    LineStart(s, r) /\ LineMatchEnd(re, s, r) # NoMatch
                    /\ LineMatchEnd(re, s, r) >= r}
        first == CHOOSE x \in hits : \A y \in hits : x <= y
    IN  IF hits = {} THEN Slice(s, k, Len(s))
        ELSE Slice(s, k, first - 1)
             \o RemoveAtLineStart(re, s, LineMatchEnd(re, s, first) + 1)
    ) : re \in {re_}, s \in {s_}, k \in {k_}})

\* \n{3,} replaced by two newlines
RECURSIVE CollapseNewlines(_, _)
CollapseNewlines(s_, k_) ==
    Once({(
    LET nls == {r \in k..Len(s) : s[r] = NL}
        first == CHOOSE x \in nls : \A y \in nls : x <= y
        stops == {r \in first..Len(s) : s[r] # NL}
        q == IF stops = {} THEN Len(s) + 1 ELSE CHOOSE x \in stops : \A y \in stops : x <= y
    IN  IF nls = {} THEN Slice(s, k, Len(s))
        ELSE Slice(s, k, first - 1)
             \o (IF q - first >= 3 THEN <<NL, NL>> ELSE [n \in 1..(q - first) |-> NL])
             \o CollapseNewlines(s, q)
    ) : s \in {s_}, k \in {k_}})

\* clean_markdown (main.rs 647-678): the replacements in the order of the source,
\* the innermost first
clean_markdown(text) ==
    Trim(RemoveAtLineStart("re_image_index",
         RemoveAtLineStart("re_page_break",
         CollapseNewlines(
         RemoveAtLineStart("re_empty",
         RemoveAtLineStart("re_ocr",
         RemoveAtLineStart("re_think",
         RemoveAtLineStart("re_grounding",
         RemovePairs(text, 1, REF_OPEN, REF_CLOSE, TRUE),
         1), 1), 1), 1), 1), 1), 1))

\* clean_markdown_for_plain (main.rs 680-702): the replacements in the order of
\* the source, the innermost first
clean_markdown_for_plain(text) ==
    Trim(CollapseNewlines(
         RemoveAtLineStart("re_empty",
         RemoveAtLineStart("re_image_index_plain",
         RemoveAtLineStart("re_page_break",
         RemoveAtLineStart("re_all_tags",
         RemovePairs(RemovePairs(text, 1, DET_OPEN, DET_CLOSE, FALSE),
                     1, REF_OPEN, REF_CLOSE, TRUE),
         1), 1), 1), 1), 1))

(***************************************************************************)
(* Calls of the cleaning profiles on bounded inputs                        *)
(***************************************************************************)
MaxCleanPieces == 3

\* raw OCR markdown: text, blanks, line breaks, whole and fragmentary tags, sentinels
CleanPieces ==
    {<<"a">>, <<" ">>, <<NL>>, <<NL, NL>>, <<"<", "|", "d", "e", "t", "|", ">", "x", "<", "|", "/", "d", "e", "t", "|", ">">>, <<"<", "|", "d", "e">>, <<"t", "|", ">", "y", "<", "|", "/", "d", "e", "t", "|", ">">>,
     <<"<", "|", "r", "e", "f", "|", ">">>, <<"<", "|", "/", "r", "e", "f", "|", ">">>, <<"<", "|", "t", "h", "i", "n", "k", "|", ">">>, <<"<", "|", "g", "r", "o", "u", "n", "d", "i", "n", "g", "|", ">", "b">>,
     <<"-", "-", "-", "P", "A", "G", "E", "_", "B", "R", "E", "A", "K", "-", "-", "-">>, <<"-", "-", "-", "I", "M", "A", "G", "E", "_", "I", "N", "D", "E", "X", ":", "0", "-", "-", "-">>}
CleanTexts == {Concat(p) : p \in SeqUpTo(CleanPieces, MaxCleanPieces)}

InitClean ==
    /\ pc = "call"
    /\ arg \in {[fn |-> f, text |-> t] :
                  f \in {"clean_markdown", "clean_markdown_for_plain"}, t \in CleanTexts}
    /\ ret = NoRet
    /\ ParserIdle
    /\ LayoutIdle

Call_clean_markdown ==
    /\ pc = "call" /\ arg.fn = "clean_markdown"
    /\ ret' = [panic |-> FALSE, once |-> clean_markdown(arg.text)]
    /\ pc' = "return"
    /\ UNCHANGED <<arg, parserVars, layoutVars>>

Call_clean_markdown_for_plain ==
    /\ pc = "call" /\ arg.fn = "clean_markdown_for_plain"
    /\ ret' = [panic |-> FALSE, once |-> clean_markdown_for_plain(arg.text)]
    /\ pc' = "return"
    /\ UNCHANGED <<arg, parserVars, layoutVars>>

\* the profile applied to its own output
Call_clean_markdown_for_plain_again ==
    /\ pc = "return" /\ arg.fn = "clean_markdown_for_plain"
    /\ ret' = [panic |-> FALSE, once |-> ret.once,
               twice |-> clean_markdown_for_plain(ret.once)]
    /\ pc' = "again"
    /\ UNCHANGED <<arg, parserVars, layoutVars>>

NextClean ==
    \/ Call_clean_markdown
    \/ Call_clean_markdown_for_plain
    \/ Call_clean_markdown_for_plain_again

SpecClean == InitClean /\ [][NextClean]_vars

\* C4: cleaning idempotence: applying clean_markdown_for_plain to its own output
\* changes nothing.
C4_CleanIdempotent ==
    (pc = "again" /\ arg.fn = "clean_markdown_for_plain") => (ret.twice = ret.once)

(***************************************************************************)
(* Markdown Parser: parse_ocr_blocks, one action per branch of its loop    *)
(***************************************************************************)
DigitVal(c_) ==
    Once({(
    CASE c = "0" -> 0 [] c = "1" -> 1 [] c = "2" -> 2 [] c = "3" -> 3 [] c = "4" -> 4
      [] c = "5" -> 5 [] c = "6" -> 6 [] c = "7" -> 7 [] c = "8" -> 8 [] c = "9" -> 9
    ) : c \in {c_}})

RECURSIVE DigitsVal(_)
DigitsVal(s_) ==
    Once({(
    IF s = <<>> THEN 0 ELSE DigitsVal(Slice(s, 1, Len(s) - 1)) * 10 + DigitVal(s[Len(s)])
    ) : s \in {s_}})

AllDigits(s_) ==
    Once({(
    s # <<>> /\ \A k \in 1..Len(s) : IsDigit(s[k])
    ) : s \in {s_}})

\* str::parse::<usize> (an optional '+', then digits): [ok, val]
ParseUsize(s_) ==
    Once({(
    LET body == IF s # <<>> /\ Head(s) = "+" THEN Tail(s) ELSE s
    IN  IF AllDigits(body) THEN [ok |-> TRUE, val |-> DigitsVal(body)]
        ELSE [ok |-> FALSE, val |-> 0]
    ) : s \in {s_}})

\* str::parse::<f32> on the literals that occur in the inputs, which are integers
\* with an optional sign: [ok, val]
ParseF32(s_) ==
    Once({(
    LET signed == s # <<>> /\ Head(s) \in {"+", "-"}
        body == IF signed THEN Tail(s) ELSE s
    IN  IF AllDigits(body)
        THEN [ok |-> TRUE, val |-> IF signed /\ Head(s) = "-" THEN 0 - DigitsVal(body)
                                   ELSE DigitsVal(body)]
        ELSE [ok |-> FALSE, val |-> 0]
    ) : s \in {s_}})

\* parse_coordinates (main.rs 1341-1365): [ok, coords]
parse_coordinates(coords_str0_) ==
    Once({(
    LET coords_str == Trim(coords_str0)
        inner == Slice(coords_str, 3, Len(coords_str) - 2)
        parts == SplitChar(inner, ",")
        vals == [n \in 1..Len(parts) |-> ParseF32(Trim(parts[n]))]
    IN  IF ~StartsWith(coords_str, <<"[", "[">>) \/ ~EndsWith(coords_str, <<"]", "]">>)
        THEN [ok |-> FALSE, coords |-> <<>>]
        ELSE IF Len(parts) # 4 \/ \E n \in 1..Len(parts) : ~vals[n].ok
        THEN [ok |-> FALSE, coords |-> <<>>]
        ELSE [ok |-> TRUE, coords |-> [n \in 1..4 |-> vals[n].val]]
    ) : coords_str0 \in {coords_str0_}})

\* the index carried by an image-index line, when it parses (main.rs 1278-1283)
ImageIndexOf(line_) ==
    Once({(
    LET idx_str == Slice(line, Len(IMAGE_INDEX) + 1, Len(line))
    IN  IF EndsWith(idx_str, DASHES)
        THEN ParseUsize(Trim(Slice(idx_str, 1, Len(idx_str) - Len(DASHES))))
        ELSE [ok |-> FALSE, val |-> 0]
    ) : line \in {line_}})

IsImageIndexLine(line) == StartsWith(line, IMAGE_INDEX)
IsPageBreakLine(line) == Trim(line) = PAGE_BREAK

\* a line of the main loop that holds both det tags (main.rs 1297-1298)
HasDetPair(line_) ==
    Once({(
    Contains(line, DET_OPEN) /\ Contains(line, DET_CLOSE)
    ) : line \in {line_}})

\* &line[det_start + 7..det_end] panics when the closing tag comes first (main.rs 1299)
DetSlicePanics(line_) ==
    Once({(
    Find(line, DET_CLOSE) < Find(line, DET_OPEN) + Len(DET_OPEN)
    ) : line \in {line_}})

DetCoords(line_) ==
    Once({(
    parse_coordinates(Slice(line, Find(line, DET_OPEN) + Len(DET_OPEN), Find(line, DET_CLOSE) - 1))
    ) : line \in {line_}})

\* the inner loop (main.rs 1307-1314): first index j >= from at which collection stops
TextEnd(ls_, from_) ==
    Once({(
    LET stops == {j \in from..Len(ls) : StartsWith(Trim(ls[j]), <<"<", "|">>) \/ Trim(ls[j]) = <<>>}
    IN  IF stops = {} THEN Len(ls) + 1 ELSE CHOOSE x \in stops : \A y \in stops : x <= y
    ) : ls \in {ls_}, from \in {from_}})

TextLines(ls_, from_) ==
    Once({(
    [n \in 1..(TextEnd(ls, from) - from) |-> Trim(ls[from + n - 1])]
    ) : ls \in {ls_}, from \in {from_}})

\* i is the 1-based index of the current line
ParseImageIndex ==
    /\ pc = "parse" /\ i <= Len(lines)
    /\ IsImageIndexLine(lines[i])
    /\ current_image_index' =
          IF ImageIndexOf(lines[i]).ok THEN ImageIndexOf(lines[i]).val ELSE current_image_index
    /\ i' = i + 1
    /\ UNCHANGED <<pc, callVars, layoutVars, lines, blocks, next_block_needs_page_break>>

ParsePageBreak ==
    /\ pc = "parse" /\ i <= Len(lines)
    /\ ~IsImageIndexLine(lines[i])
    /\ IsPageBreakLine(lines[i])
    /\ next_block_needs_page_break' = TRUE
    /\ i' = i + 1
    /\ UNCHANGED <<pc, callVars, layoutVars, lines, blocks, current_image_index>>

\* a tag pair with a well-formed payload: the block is emitted when text follows
ParseDetBlock ==
    /\ pc = "parse" /\ i <= Len(lines)
    /\ ~IsImageIndexLine(lines[i]) /\ ~IsPageBreakLine(lines[i])
    /\ HasDetPair(lines[i]) /\ ~DetSlicePanics(lines[i])
    /\ DetCoords(lines[i]).ok
    /\ LET coords == DetCoords(lines[i]).coords
           text_lines == TextLines(lines, i + 1)
       IN  /\ IF text_lines # <<>>
              THEN /\ blocks' = Append(blocks,
                         [text |-> Join(text_lines, <<" ">>),
                          x |-> coords[1], y |-> coords[2],
                          width |-> coords[3] - coords[1], height |-> coords[4] - coords[2],
                          force_page_break |-> next_block_needs_page_break,
                          image_index |-> current_image_index])
                   /\ next_block_needs_page_break' = FALSE
              ELSE UNCHANGED <<blocks, next_block_needs_page_break>>
           /\ i' = TextEnd(lines, i + 1)
    /\ UNCHANGED <<pc, callVars, layoutVars, lines, current_image_index>>

\* the slice of the payload panics: the conversion aborts
ParseDetPanic ==
    /\ pc = "parse" /\ i <= Len(lines)
    /\ ~IsImageIndexLine(lines[i]) /\ ~IsPageBreakLine(lines[i])
    /\ HasDetPair(lines[i]) /\ DetSlicePanics(lines[i])
    /\ pc' = "panic"
    /\ UNCHANGED <<callVars, parserVars, layoutVars>>

\* (mutant) a line that is skipped clears the pending-break flag
ParseSkipLine_clears ==
    /\ pc = "parse" /\ i <= Len(lines)
    /\ ~IsImageIndexLine(lines[i]) /\ ~IsPageBreakLine(lines[i])
    /\ ~HasDetPair(lines[i]) \/ (~DetSlicePanics(lines[i]) /\ ~DetCoords(lines[i]).ok)
    /\ i' = i + 1
    /\ next_block_needs_page_break' = FALSE
    /\ UNCHANGED <<pc, callVars, layoutVars, lines, blocks, current_image_index>>

\* (mutant) a line that is skipped leaves the index where it is
ParseSkipLine_stalled ==
    /\ pc = "parse" /\ i <= Len(lines)
    /\ ~IsImageIndexLine(lines[i]) /\ ~IsPageBreakLine(lines[i])
    /\ ~HasDetPair(lines[i]) \/ (~DetSlicePanics(lines[i]) /\ ~DetCoords(lines[i]).ok)
    /\ UNCHANGED vars
\* any other line, and a tag that is not a pair or has a malformed payload
ParseSkipLine ==
    /\ pc = "parse" /\ i <= Len(lines)
    /\ ~IsImageIndexLine(lines[i]) /\ ~IsPageBreakLine(lines[i])
    /\ ~HasDetPair(lines[i]) \/ (~DetSlicePanics(lines[i]) /\ ~DetCoords(lines[i]).ok)
    /\ i' = i + 1
    /\ UNCHANGED <<pc, callVars, layoutVars, lines, blocks, next_block_needs_page_break, current_image_index>>

ParseReturn ==
    /\ pc = "parse" /\ i > Len(lines)
    /\ pc' = "done"
    /\ UNCHANGED <<callVars, parserVars, layoutVars>>

MaxParserPieces == 3

TAG1 == <<"<", "|", "d", "e", "t", "|", ">", "[", "[", "1", ",", "2", ",", "3", ",", "4", "]", "]", "<", "|", "/", "d", "e", "t", "|", ">">>
TAG2 == <<"<", "|", "r", "e", "f", "|", ">", "r", "<", "|", "/", "r", "e", "f", "|", ">", "<", "|", "d", "e", "t", "|", ">", "[", "[", "5", ",", " ", "6", ",", " ", "7", ",", " ", "8", "]", "]", "<", "|", "/", "d", "e", "t", "|", ">">>

\* the input, in groups of lines: tagged blocks, lone and broken tags, sentinels, text
ParserPieces ==
    {<<TAG1, <<"A">>>>, <<TAG2, <<"B">>, <<" ", "C">>>>, <<TAG1>>,
     <<<<"<", "|", "d", "e", "t", "|", ">", "[", "[", "1", ",", "2", ",", "3", "]", "]", "<", "|", "/", "d", "e", "t", "|", ">">>>>, <<<<"<", "|", "/", "d", "e", "t", "|", ">", "x", "<", "|", "d", "e", "t", "|", ">">>>>, <<<<"<", "|", "d", "e", "t", "|", ">", "[", "[", "1", ",", "2", ",", "3", ",", "4", "]", "]">>>>,
     <<PAGE_BREAK>>, <<<<"-", "-", "-", "I", "M", "A", "G", "E", "_", "I", "N", "D", "E", "X", ":", "1", "-", "-", "-">>>>, <<<<"D">>>>, <<<<>>>>}

InitParser ==
    /\ pc = "parse"
    /\ lines \in {Concat(p) : p \in SeqUpTo(ParserPieces, MaxParserPieces)}
    /\ i = 1
    /\ blocks = <<>>
    /\ next_block_needs_page_break = FALSE
    /\ current_image_index = 0
    /\ arg = [fn |-> "parse_ocr_blocks"]
    /\ ret = NoRet
    /\ LayoutIdle

NextParser ==
    \/ ParseImageIndex
    \/ ParsePageBreak
    \/ ParseDetBlock
    \/ ParseDetPanic
    \/ ParseSkipLine
    \/ ParseReturn

SpecParser == InitParser /\ [][NextParser]_vars

\* C2: parse_ocr_blocks never emits a sentinel line as content: no emitted block's
\* text holds an image-index delimiter or a page-break delimiter.
C2_NoSentinelInText ==
    \A n \in 1..Len(blocks) :
        ~Contains(blocks[n].text, PAGE_BREAK) /\ ~Contains(blocks[n].text, IMAGE_INDEX)

\* a line with a tag pair and a well-formed payload that a text line follows
WellFormedTagged(ls_, k_) ==
    Once({(
    /\ ~IsImageIndexLine(ls[k]) /\ ~IsPageBreakLine(ls[k])
    /\ HasDetPair(ls[k])
    /\ Find(ls[k], DET_OPEN) < Find(ls[k], DET_CLOSE)
    /\ DetCoords(ls[k]).ok
    /\ TextLines(ls, k + 1) # <<>>
    ) : ls \in {ls_}, k \in {k_}})

\* C3: parse-level anomalies are non-fatal: parse_ocr_blocks never aborts, a tag whose
\* payload is malformed or that no text follows emits no block, and every well-formed
\* tagged block is emitted.
C3_AnomaliesNonFatal ==
    /\ pc # "panic"
    /\ pc = "done" =>
          Len(blocks) = Cardinality({k \in 1..Len(lines) : WellFormedTagged(lines, k)})

\* ---------------------------------------------------------------------------
\* Layout arithmetic.  Lengths are integers in millionths of a millimetre and
\* font sizes are integers in hundredths of a point, so that the products the
\* code computes in f32 stay exact to six decimals.
\* ---------------------------------------------------------------------------

MM == 1000 * 1000
PT == 10 * 10

page_width == 210 * MM
page_height == 297 * MM
margin == 5 * MM
usable_width == 200 * MM
usable_height == 287 * MM
max_column_width == 95 * MM
base_line_height == (55 * MM) \div 10
cell_padding == MM \div 2
border_width == 1 * MM

\* block.y * scale, block.x * scale: scale is 0.20 mm per source unit
Scaled(v) == v * (MM \div 5)

\* font_size * 0.5 * pt_to_mm with pt_to_mm = 0.352778
AvgCharWidth(font_size) == (font_size * 176389) \div 100

\* font_size * 0.35: the step between wrapped lines of a block
CoordLineStep(font_size) == font_size * 3500

\* the drawing operations of the canvas: a text run, a straight segment
UseText(kind, pg, x, y, size, text, src) ==
    [kind |-> kind, page |-> pg, x |-> x, y |-> y, x2 |-> x, y2 |-> y,
     size |-> size, text |-> text, src |-> src]

AddLine(pg, x1, y1, x2, y2, src) ==
    [kind |-> "line", page |-> pg, x |-> x1, y |-> y1, x2 |-> x2, y2 |-> y2,
     size |-> 0, text |-> <<>>, src |-> src]

draw_horizontal_line(pg_, start_x_, end_x_, y_, src_) ==
    Once({(
    AddLine(pg, start_x, y, end_x, y, src)
    ) : pg \in {pg_}, start_x \in {start_x_}, end_x \in {end_x_}, y \in {y_}, src \in {src_}})

draw_vertical_line(pg_, x_, y_top_, y_bottom_, src_) ==
    Once({(
    AddLine(pg, x, y_top, x, y_bottom, src)
    ) : pg \in {pg_}, x \in {x_}, y_top \in {y_top_}, y_bottom \in {y_bottom_}, src \in {src_}})

RECURSIVE SumSeq(_)
SumSeq(s_) ==
    Once({(
    IF s = <<>> THEN 0 ELSE Head(s) + SumSeq(Tail(s))
    ) : s \in {s_}})

RECURSIVE MaxOfSeq(_)
MaxOfSeq(s_) ==
    Once({(
    IF s = <<>> THEN 0 ELSE Max(Head(s), MaxOfSeq(Tail(s)))
    ) : s \in {s_}})

\* (mutant) a word joins the current line without a space
PushWord_glued(current_line, word) == current_line \o word
\* a word joins the current line after a single space
PushWord(current_line, word) ==
    IF current_line = <<>> THEN word ELSE current_line \o <<" ">> \o word

\* greedy wrap by byte count: the lines of the words (no word is split)
RECURSIVE WrapLines(_, _, _, _)
WrapLines(words_, k_, cur_, max_chars_) ==
    Once({(
    IF k > Len(words) THEN (IF cur = <<>> THEN <<>> ELSE <<cur>>)
    ELSE LET word == words[k]
         IN  IF ByteLen(cur) + ByteLen(word) + 1 > max_chars /\ cur # <<>>
             THEN <<cur>> \o WrapLines(words, k + 1, word, max_chars)
             ELSE WrapLines(words, k + 1, PushWord(cur, word), max_chars)
    ) : words \in {words_}, k \in {k_}, cur \in {cur_}, max_chars \in {max_chars_}})

\* (mutant) the first pass counts one line for every cell
CountLines_one(words, k, lines_, current_line_len, max_chars_per_line) == lines_
\* the first pass of the table renderer counts lines from a running length
RECURSIVE CountLines(_, _, _, _, _)
CountLines(words_, k_, lines__, current_line_len_, max_chars_per_line_) ==
    Once({(
    IF k > Len(words) THEN lines_
    ELSE LET wl == ByteLen(words[k])
         IN  IF current_line_len + wl + 1 > max_chars_per_line /\ current_line_len > 0
             THEN CountLines(words, k + 1, lines_ + 1, wl, max_chars_per_line)
             ELSE CountLines(words, k + 1, lines_, current_line_len + wl + 1, max_chars_per_line)
    ) : words \in {words_}, k \in {k_}, lines_ \in {lines__}, current_line_len \in {current_line_len_}, max_chars_per_line \in {max_chars_per_line_}})

\* the column geometry of a table
TableGeometry(rows_, max_width_, font_size_) ==
    Once({(
    LET num_cols == MaxOfSeq([r \in 1..Len(rows) |-> Len(rows[r])])
        col_widths == [c \in 1..num_cols |->
                          MaxOfSeq([r \in 1..Len(rows) |->
                                       IF c <= Len(rows[r]) THEN ByteLen(rows[r][c]) ELSE 0])]
        total_border_width == (num_cols + 1) * border_width
        total_padding_width == num_cols * (cell_padding * 2)
        available_width == Max(max_width - total_border_width - total_padding_width, 10 * MM)
        total_chars == SumSeq(col_widths)
        col_widths_mm == [c \in 1..num_cols |->
                             IF total_chars > 0
                             THEN (available_width \div total_chars) * col_widths[c]
                             ELSE available_width \div num_cols]
        avg_char_width == AvgCharWidth(font_size)
    IN  [num_cols |-> num_cols,
         col_widths_mm |-> col_widths_mm,
         max_chars_per_line |-> [c \in 1..num_cols |->
             Max(((col_widths_mm[c] \div 100) * 85) \div avg_char_width, 1)],
         total_table_width |-> SumSeq(col_widths_mm) + total_border_width + total_padding_width,
         text_center_y |-> (base_line_height \div 2) + (font_size * 352778) \div 1000]
    ) : rows \in {rows_}, max_width \in {max_width_}, font_size \in {font_size_}})

\* first pass: the height of every row from the line counts of its cells
RowHeights(rows_, g_) ==
    Once({(
    [r \in 1..Len(rows) |->
        LET max_lines_in_row ==
                Max(1, MaxOfSeq([c \in 1..Len(rows[r]) |->
                        CountLines(SplitWhitespace(rows[r][c]), 1, 1, 0, g.max_chars_per_line[c])]))
        IN  base_line_height * max_lines_in_row + cell_padding * 2]
    ) : rows \in {rows_}, g \in {g_}})

\* the text runs of one cell, one per wrapped line
CellDraws(cell_, max_chars_per_line_, pg_, cell_text_x_, top_y_, size_, src_) ==
    Once({(
    LET text_lines == WrapLines(SplitWhitespace(cell), 1, <<>>, max_chars_per_line)
    IN  [n \in 1..Len(text_lines) |->
            UseText("cell", pg, cell_text_x, top_y - (n - 1) * base_line_height,
                    size, text_lines[n], src)]
    ) : cell \in {cell_}, max_chars_per_line \in {max_chars_per_line_}, pg \in {pg_}, cell_text_x \in {cell_text_x_}, top_y \in {top_y_}, size \in {size_}, src \in {src_}})

\* the cells of one row, left to right, each followed by its right border
RECURSIVE RowDraws(_, _, _, _, _, _, _, _, _)
RowDraws(row_, c_, cell_x_, current_y_, row_height_, g_, pg_, size_, src_) ==
    Once({(
    IF c > Len(row) THEN <<>>
    ELSE LET col_width == g.col_widths_mm[c]
             next_x == cell_x + col_width + cell_padding * 2 + border_width
         IN  CellDraws(row[c], g.max_chars_per_line[c], pg, cell_x + cell_padding,
                       current_y - cell_padding - g.text_center_y, size, src)
             \o <<draw_vertical_line(pg, next_x, current_y, current_y - row_height, src)>>
             \o RowDraws(row, c + 1, next_x, current_y, row_height, g, pg, size, src)
    ) : row \in {row_}, c \in {c_}, cell_x \in {cell_x_}, current_y \in {current_y_}, row_height \in {row_height_}, g \in {g_}, pg \in {pg_}, size \in {size_}, src \in {src_}})

\* second pass: the rows from the top down, each closed by a horizontal border
RECURSIVE TableRowsDraws(_, _, _, _, _, _, _, _, _)
TableRowsDraws(rows_, r_, start_x_, current_y_, heights_, g_, pg_, size_, src_) ==
    Once({(
    IF r > Len(rows) THEN [draws |-> <<>>, y |-> current_y]
    ELSE LET row_height == heights[r]
             rest == TableRowsDraws(rows, r + 1, start_x, current_y - row_height,
                                    heights, g, pg, size, src)
         IN  [draws |-> <<draw_vertical_line(pg, start_x, current_y, current_y - row_height, src)>>
                        \o RowDraws(rows[r], 1, start_x + border_width, current_y, row_height,
                                    g, pg, size, src)
                        \o <<draw_horizontal_line(pg, start_x, start_x + g.total_table_width,
                                                  current_y - row_height, src)>>
                        \o rest.draws,
              y |-> rest.y]
    ) : rows \in {rows_}, r \in {r_}, start_x \in {start_x_}, current_y \in {current_y_}, heights \in {heights_}, g \in {g_}, pg \in {pg_}, size \in {size_}, src \in {src_}})

\* the bordered table: what it draws and the position below it
render_html_table(pg_, rows_, start_x_, start_y_, max_width_, font_size_, src_) ==
    Once({(
    IF rows = <<>> THEN [draws |-> <<>>, y |-> start_y]
    ELSE LET g == TableGeometry(rows, max_width, font_size) IN
         IF g.num_cols = 0 THEN [draws |-> <<>>, y |-> start_y]
         ELSE LET body == TableRowsDraws(rows, 1, start_x, start_y, RowHeights(rows, g),
                                         g, pg, font_size, src)
              IN  [draws |-> <<draw_horizontal_line(pg, start_x, start_x + g.total_table_width,
                                                    start_y, src)>> \o body.draws,
                   y |-> body.y - 2 * MM]
    ) : pg \in {pg_}, rows \in {rows_}, start_x \in {start_x_}, start_y \in {start_y_}, max_width \in {max_width_}, font_size \in {font_size_}, src \in {src_}})

\* ---------------------------------------------------------------------------
\* convert_with_coordinates: the coordinate-mode layout engine
\* ---------------------------------------------------------------------------

\* (mutant) the comparator looks at the vertical position alone
BlockLess_position_only(a, b) == a.y < b.y
\* the comparator of the sort: image index first, then the raw vertical position
BlockLess(a, b) ==
    \/ a.image_index < b.image_index
    \/ a.image_index = b.image_index /\ a.y < b.y

\* a stable insertion of b into the sorted sequence s
RECURSIVE InsertBlock(_, _)
InsertBlock(s_, b_) ==
    Once({(
    IF s = <<>> THEN <<b>>
    ELSE IF BlockLess(b, s[Len(s)]) THEN InsertBlock(SubSeq(s, 1, Len(s) - 1), b) \o <<s[Len(s)]>>
    ELSE Append(s, b)
    ) : s \in {s_}, b \in {b_}})

\* sort_by is stable: equal blocks keep their source order
RECURSIVE SortBlocks(_)
SortBlocks(bs_) ==
    Once({(
    IF bs = <<>> THEN <<>>
    ELSE InsertBlock(SortBlocks(SubSeq(bs, 1, Len(bs) - 1)), bs[Len(bs)])
    ) : bs \in {bs_}})

\* the backward jump that signals a new image
backward_jump_floor == 100
backward_jump == 50
BackwardJump(prev_y, y) == prev_y > backward_jump_floor /\ y < prev_y - backward_jump

\* base font size from the block's height, clamped to 6..10 pt
BaseFontSize(height) == Min(Max(height * (PT \div 10), 6 * PT), 10 * PT)

\* minimum gap to the previous block of the same column
MinSpacing(base_font_size) == Max(base_font_size * 5292, (25 * MM) \div 10)

HeaderFontSize(base_font_size, header_level) ==
    CASE header_level = 1 -> Min(base_font_size * 2, 18 * PT)
      [] header_level = 2 -> Min((base_font_size * 3) \div 2, 14 * PT)
      [] header_level = 3 -> Min((base_font_size * 13) \div 10, 12 * PT)
      [] OTHER -> base_font_size

BlockWidth(width, x_mm) ==
    LET available_width_to_right == Max(page_width - margin - x_mm, 20 * MM)
        desired_block_width == Max(Scaled(width), 25 * MM)
    IN  Min(Min(desired_block_width, available_width_to_right), max_column_width)

MaxChars(block_width_mm, font_size) ==
    Max(block_width_mm \div AvgCharWidth(font_size), 15)

\* the wrap loop of a block: st is the running state (current line, line position,
\* page, logical top, drawn so far), p the constants of the block
RECURSIVE CoordWrap(_, _, _, _)
CoordWrap(words_, k_, st_, p_) ==
    Once({(
    IF k > Len(words) THEN st
    ELSE LET word == words[k]
             flush == ByteLen(st.cur) + ByteLen(word) + 1 > p.max_chars /\ st.cur # <<>>
             stepped == st.line_y - CoordLineStep(p.size)
             new_page == stepped < margin
             st1 == IF flush
                    THEN [cur |-> <<>>,
                          line_y |-> IF new_page THEN page_height - margin - 10 * MM ELSE stepped,
                          page |-> IF new_page THEN st.page + 1 ELSE st.page,
                          page_start_y |-> IF new_page THEN p.block_y_mm ELSE st.page_start_y,
                          draws |-> Append(st.draws, UseText(p.kind, st.page, p.x, st.line_y,
                                                             p.size, st.cur, p.src))]
                    ELSE st
         IN  CoordWrap(words, k + 1, [st1 EXCEPT !.cur = PushWord(st1.cur, word)], p)
    ) : words \in {words_}, k \in {k_}, st \in {st_}, p \in {p_}})

\* the items of a list block: bullet, wrapped body, gap; st also carries the item
\* position and the last position of the column
RECURSIVE CoordListItems(_, _, _, _)
CoordListItems(items_, n_, st_, p_) ==
    Once({(
    IF n > Len(items) THEN st
    ELSE LET item_text == strip_leading_marker(items[n])
             bullet == UseText("bullet", st.page, p.x_mm, st.item_y, p.bullet_pt, <<BULLET>>, p.src)
             w == CoordWrap(SplitWhitespace(item_text), 1,
                            [cur |-> <<>>, line_y |-> st.item_y, page |-> st.page,
                             page_start_y |-> st.page_start_y,
                             draws |-> Append(st.draws, bullet)],
                            [max_chars |-> p.max_chars, size |-> p.base_font_size,
                             x |-> p.x_mm + p.bullet_offset, block_y_mm |-> p.block_y_mm,
                             kind |-> "item", src |-> p.src])
             drawn == w.cur # <<>>
             item_y1 == IF drawn THEN w.line_y ELSE st.item_y
         IN  CoordListItems(items, n + 1,
                 [item_y |-> item_y1 - (CoordLineStep(p.base_font_size) + 1 * MM),
                  page |-> w.page,
                  page_start_y |-> w.page_start_y,
                  last_y |-> IF drawn THEN w.line_y - CoordLineStep(p.base_font_size)
                             ELSE st.last_y,
                  draws |-> IF drawn
                            THEN Append(w.draws, UseText("item", w.page, p.x_mm + p.bullet_offset,
                                                         w.line_y, p.base_font_size, w.cur, p.src))
                            ELSE w.draws], p)
    ) : items \in {items_}, n \in {n_}, st \in {st_}, p \in {p_}})

\* the page and the trackers after a page was added (main.rs 1455-1459, 1465-1468)
FreshPage(t) ==
    [page |-> t.page + 1, page_start_y |-> 0, last_y_left |-> 0, last_y_right |-> 0]

\* the page and the trackers a block is placed with: a pending break adds a page,
\* then a block that lies below the usable height adds one (main.rs 1453-1469)
BlockPage(block_y_mm, force) ==
    LET now == [page |-> page, page_start_y |-> page_start_y,
                last_y_left |-> last_y_left, last_y_right |-> last_y_right]
        forced == IF force THEN FreshPage(now) ELSE now
    IN  IF block_y_mm - forced.page_start_y > usable_height THEN FreshPage(forced) ELSE forced

\* position, column, font and width of a block on the page t (main.rs 1450-1525)
BlockGeometry(block_, header_level_, t_) ==
    Once({(
    LET x_mm == Min(Scaled(block.x) + margin, usable_width)
        y_top == Max(page_height - margin - (Scaled(block.y) - t.page_start_y), margin)
        is_left_column == x_mm < 95 * MM
        base_font_size == BaseFontSize(block.height)
        last_col == IF is_left_column THEN t.last_y_left ELSE t.last_y_right
        font_size == IF header_level > 0 THEN HeaderFontSize(base_font_size, header_level)
                     ELSE base_font_size
    IN  [x_mm |-> x_mm,
         block_y_mm |-> Scaled(block.y),
         is_left_column |-> is_left_column,
         base_font_size |-> base_font_size,
         last_col |-> last_col,
         y_mm |-> IF last_col > 0 /\ last_col - y_top < MinSpacing(base_font_size)
                  THEN last_col - MinSpacing(base_font_size) ELSE y_top,
         font_size |-> font_size,
         block_width_mm |-> BlockWidth(block.width, x_mm),
         max_chars |-> MaxChars(BlockWidth(block.width, x_mm), font_size)]
    ) : block \in {block_}, header_level \in {header_level_}, t \in {t_}})

\* a block that holds a table (main.rs 1530-1543): [page, page_start_y, last_y, draws]
TableContent(rows_, t_, g_, src_) ==
    Once({(
    IF rows = <<>>
    THEN [page |-> t.page, page_start_y |-> t.page_start_y, last_y |-> g.last_col,
          draws |-> <<>>]
    ELSE Once({[page |-> t.page, page_start_y |-> t.page_start_y, last_y |-> table.y,
                draws |-> table.draws]
               : table \in {render_html_table(t.page, rows, g.x_mm, g.y_mm,
                                              g.block_width_mm, 8 * PT, src)}})
    ) : rows \in {rows_}, t \in {t_}, g \in {g_}, src \in {src_}})

\* a block that is a list (main.rs 1545-1598)
ListContent(text_, t_, g_, src_) ==
    Once({(
    Once({[page |-> list.page, page_start_y |-> list.page_start_y,
           last_y |-> list.last_y, draws |-> list.draws]
          : list \in {CoordListItems(split_list_items(text), 1,
                          [item_y |-> g.y_mm, page |-> t.page,
                           page_start_y |-> t.page_start_y,
                           last_y |-> g.last_col, draws |-> <<>>],
                          [x_mm |-> g.x_mm, bullet_pt |-> Max(g.base_font_size, 8 * PT),
                           bullet_offset |-> AvgCharWidth(Max(g.base_font_size, 8 * PT)) * 2,
                           base_font_size |-> g.base_font_size, max_chars |-> g.max_chars,
                           block_y_mm |-> g.block_y_mm, src |-> src])}})
    ) : text \in {text_}, t \in {t_}, g \in {g_}, src \in {src_}})

\* a block longer than its line: word wrapping (main.rs 1599-1635)
WrappedContent(text_, t_, g_, src_) ==
    Once({(
    Once({[page |-> wrap.page, page_start_y |-> wrap.page_start_y,
           last_y |-> IF wrap.cur # <<>> THEN wrap.line_y - CoordLineStep(g.font_size)
                      ELSE g.last_col,
           draws |-> IF wrap.cur # <<>>
                     THEN Append(wrap.draws, UseText("text", wrap.page, g.x_mm, wrap.line_y,
                                                     g.font_size, wrap.cur, src))
                     ELSE wrap.draws]
          : wrap \in {CoordWrap(SplitWhitespace(text), 1,
                          [cur |-> <<>>, line_y |-> g.y_mm, page |-> t.page,
                           page_start_y |-> t.page_start_y, draws |-> <<>>],
                          [max_chars |-> g.max_chars, size |-> g.font_size, x |-> g.x_mm,
                           block_y_mm |-> g.block_y_mm, kind |-> "text", src |-> src])}})
    ) : text \in {text_}, t \in {t_}, g \in {g_}, src \in {src_}})

\* a block that fits its line is drawn as it is (main.rs 1636-1656)
SingleLineContent(text, t, g, src) ==
    [page |-> t.page, page_start_y |-> t.page_start_y,
     last_y |-> g.y_mm - CoordLineStep(g.font_size),
     draws |-> <<UseText("text", t.page, g.x_mm, g.y_mm, g.font_size, text, src)>>]

\* the branch the text of the block selects (main.rs 1530, 1545, 1599, 1636)
BlockContent(text_, is_list_, t_, g_, src_) ==
    Once({(
    CASE Contains(ToLower(text), <<"<", "t", "a", "b", "l", "e", ">">>) ->
             TableContent(parse_table_html(text), t, g, src)
      [] OTHER ->
             IF is_list THEN ListContent(text, t, g, src)
             ELSE IF ByteLen(text) > g.max_chars THEN WrappedContent(text, t, g, src)
             ELSE SingleLineContent(text, t, g, src)
    ) : text \in {text_}, is_list \in {is_list_}, t \in {t_}, g \in {g_}, src \in {src_}})

\* the tracker of the block's column takes the last position drawn
ColumnUpdate(t, g, res) ==
    [page |-> res.page, page_start_y |-> res.page_start_y,
     last_y_left |-> IF g.is_left_column THEN res.last_y ELSE t.last_y_left,
     last_y_right |-> IF g.is_left_column THEN t.last_y_right ELSE res.last_y,
     draws |-> res.draws]

\* what the loop body does to one block whose text is not empty:
\* the new page, logical top, column positions and drawing operations.
\* (The bindings read from the last line up.)
LayoutBlock(block_, text_, header_level_, is_list_, force_, src_) ==
    Once({(
    Once({Once({
        ColumnUpdate(t, g, BlockContent(text, is_list, t, g, src))
        : g \in {BlockGeometry(block, header_level, t)}})
        : t \in {BlockPage(Scaled(block.y), force)}})
    ) : block \in {block_}, text \in {text_}, header_level \in {header_level_}, is_list \in {is_list_}, force \in {force_}, src \in {src_}})

\* the loop is over: the document is written to the output path in one call.
\* Creating the file or writing it may fail, which ends the conversion in error.
Save ==
    /\ \/ pc = "coord" /\ bi > Len(sorted_blocks)
       \/ pc = "plain" /\ i > Len(lines)
    /\ \E outcome \in {"saved", "create_failed", "write_failed"} :
          /\ out_file' = CASE outcome = "saved" -> "complete"
                           [] outcome = "create_failed" -> out_file
                           [] OTHER -> "partial"
          /\ pc' = IF outcome = "saved" THEN "done" ELSE "error"
    /\ UNCHANGED <<callVars, parserVars, coordVars, y_position, page, draws>>

\* no block was parsed: the conversion is handed to the plain-mode engine
CoordFallback ==
    /\ pc = "convert_with_coordinates"
    /\ blocks = <<>>
    /\ pc' = "convert_plain_text"
    /\ UNCHANGED <<callVars, parserVars, layoutVars>>

\* the document with its first page, the blocks sorted, the trackers reset
CoordStart ==
    /\ pc = "convert_with_coordinates"
    /\ blocks # <<>>
    /\ sorted_blocks' = SortBlocks(blocks)
    /\ bi' = 1
    /\ page_start_y' = 0
    /\ last_y_left' = 0
    /\ last_y_right' = 0
    /\ prev_block_y' = 0
    /\ force_new_page' = FALSE
    /\ page' = 1
    /\ draws' = <<>>
    /\ pc' = "coord"
    /\ UNCHANGED <<callVars, parserVars, y_position, out_file>>

\* what the loop body derives from the block before it places it; the header
\* counter wraps around here, and `overflow` tells that it did
BlockText(block_) ==
    Once({(
    Once({Once({
        [overflow |-> parse_markdown_headers(cleaned_text, TRUE).panic,
         is_list |-> is_list_item(block.text),
         header_level |-> header.level,
         text |-> IF Contains(ToLower(block.text), <<"<", "t", "a", "b", "l", "e", ">">>)
                  THEN header.text
                  ELSE parse_html_tags(header.text).text]
        : header \in {parse_markdown_headers(cleaned_text, FALSE)}})
        : cleaned_text \in {clean_markdown(block.text)}})
    ) : block \in {block_}})

\* (mutant) a block that is skipped takes the pending break with it
CoordSkip_forgets ==
    /\ pc = "coord" /\ bi <= Len(sorted_blocks)
    /\ \E block \in {sorted_blocks[bi]} :
          /\ BlockText(block).text = <<>>
          /\ force_new_page' = FALSE
          /\ prev_block_y' = block.y
    /\ bi' = bi + 1
    /\ UNCHANGED <<pc, callVars, parserVars, sorted_blocks, page_start_y, last_y_left,
                   last_y_right, y_position, docVars>>

\* one iteration whose text is empty after cleaning: the block is skipped, but the
\* break it asked for stays pending and its position is remembered
CoordSkip ==
    /\ pc = "coord" /\ bi <= Len(sorted_blocks)
    /\ \E block \in {sorted_blocks[bi]} :
          /\ BlockText(block).text = <<>>
          /\ force_new_page' = (force_new_page \/ block.force_page_break
                                \/ BackwardJump(prev_block_y, block.y))
          /\ prev_block_y' = block.y
    /\ bi' = bi + 1
    /\ UNCHANGED <<pc, callVars, parserVars, sorted_blocks, page_start_y, last_y_left,
                   last_y_right, y_position, docVars>>

\* one iteration that places a block
CoordBlock ==
    /\ pc = "coord" /\ bi <= Len(sorted_blocks)
    /\ \E block \in {sorted_blocks[bi]} :
       \E b \in {BlockText(block)} :
          /\ b.text # <<>>
          /\ \E r \in {LayoutBlock(block, b.text, b.header_level, b.is_list,
                                     force_new_page \/ block.force_page_break
                                     \/ BackwardJump(prev_block_y, block.y), bi)} :
                /\ page' = r.page
                /\ page_start_y' = r.page_start_y
                /\ last_y_left' = r.last_y_left
                /\ last_y_right' = r.last_y_right
                /\ draws' = draws \o r.draws
          /\ prev_block_y' = block.y
          /\ force_new_page' = FALSE
    /\ bi' = bi + 1
    /\ UNCHANGED <<pc, callVars, parserVars, sorted_blocks, y_position, out_file>>

\* the header counter of the block passes 255: a build with overflow checks panics
\* (a build without them goes on with the counter wrapped around)
CoordPanic ==
    /\ pc = "coord" /\ bi <= Len(sorted_blocks)
    /\ BlockText(sorted_blocks[bi]).overflow
    /\ pc' = "panic"
    /\ UNCHANGED <<callVars, parserVars, layoutVars>>

\* ---------------------------------------------------------------------------
\* convert_plain_text: the plain-mode layout engine
\* ---------------------------------------------------------------------------

page_top == 280 * MM
bottom_margin == 20 * MM
table_bottom_margin == 50 * MM
margin_left == 5 * MM
margin_right == 5 * MM
plain_usable_width == page_width - margin_left - margin_right

\* (mutant) a line of at most two characters is taken for a blank one
IsBlankLine_short(line) == Len(Trim(line)) <= 2
\* a line that is blank after trimming only moves the cursor
IsBlankLine(line) == Trim(line) = <<>>

\* a cursor below the bottom margin moves to the top of a new page
NewPageIfLow(st_, limit_) ==
    Once({(
    IF st.y < limit THEN [st EXCEPT !.y = page_top, !.page = st.page + 1] ELSE st
    ) : st \in {st_}, limit \in {limit_}})

\* str::trim_start_matches: every leading repetition of the prefix is removed
RECURSIVE TrimStartMatches(_, _)
TrimStartMatches(s_, p_) ==
    Once({(
    IF StartsWith(s, p) THEN TrimStartMatches(Slice(s, Len(p) + 1, Len(s)), p) ELSE s
    ) : s \in {s_}, p \in {p_}})

\* font size, line spacing and the text without its header prefix
PlainStyle(text_without_html_) ==
    Once({(
    CASE StartsWith(text_without_html, <<"#", " ">>) ->
            [text |-> TrimStartMatches(text_without_html, <<"#", " ">>),
             font_size |-> 18 * PT, line_spacing |-> 10 * MM]
      [] StartsWith(text_without_html, <<"#", "#", " ">>) ->
            [text |-> TrimStartMatches(text_without_html, <<"#", "#", " ">>),
             font_size |-> 16 * PT, line_spacing |-> 8 * MM]
      [] StartsWith(text_without_html, <<"#", "#", "#", " ">>) ->
            [text |-> TrimStartMatches(text_without_html, <<"#", "#", "#", " ">>),
             font_size |-> 14 * PT, line_spacing |-> 7 * MM]
      [] StartsWith(text_without_html, <<"#", "#", "#", "#", " ">>) ->
            [text |-> TrimStartMatches(text_without_html, <<"#", "#", "#", "#", " ">>),
             font_size |-> 12 * PT, line_spacing |-> 6 * MM]
      [] OTHER ->
            [text |-> text_without_html, font_size |-> 10 * PT, line_spacing |-> 5 * MM]
    ) : text_without_html \in {text_without_html_}})

\* flush_line: draw the line, step down, and open a page when the cursor is low
flush_line(st_, line_, line_width_mm_, p_) ==
    Once({(
    IF line = <<>> THEN st
    ELSE LET approx_line_width == Max(line_width_mm, p.avg_char_width_mm)
             x_pos == IF p.is_centered
                      THEN margin_left + Max((plain_usable_width - approx_line_width) \div 2, 0)
                      ELSE margin_left
         IN  NewPageIfLow([y |-> st.y - p.line_step, page |-> st.page,
                           draws |-> Append(st.draws, UseText("text", st.page, x_pos, st.y,
                                                              p.font_size, line, p.src))],
                          bottom_margin)
    ) : st \in {st_}, line \in {line_}, line_width_mm \in {line_width_mm_}, p \in {p_}})

\* the width-based wrap loop of a text line; st carries the cursor, the page and
\* the drawing operations, cur and width the line being filled
RECURSIVE PlainWrap(_, _, _, _, _, _)
PlainWrap(words_, k_, cur_, width_, st_, p_) ==
    Once({(
    IF k > Len(words) THEN flush_line(st, cur, width, p)
    ELSE LET word == words[k]
             word_width == ByteLen(word) * p.avg_char_width_mm
             extra_space == IF cur = <<>> THEN 0 ELSE p.avg_char_width_mm
             full == width + extra_space + word_width > p.max_line_width /\ cur # <<>>
             cur1 == IF full THEN <<>> ELSE cur
             width1 == IF full THEN 0 ELSE width
         IN  PlainWrap(words, k + 1, PushWord(cur1, word),
                       width1 + (IF cur1 = <<>> THEN 0 ELSE p.avg_char_width_mm) + word_width,
                       IF full THEN flush_line(st, cur, width, p) ELSE st, p)
    ) : words \in {words_}, k \in {k_}, cur \in {cur_}, width \in {width_}, st \in {st_}, p \in {p_}})

\* the wrap loop of a list item: no page is opened inside an item
RECURSIVE PlainItemWrap(_, _, _, _, _, _)
PlainItemWrap(words_, k_, cur_, width_, st_, p_) ==
    Once({(
    LET drawn == [y |-> st.y - p.line_step, page |-> st.page,
                  draws |-> Append(st.draws, UseText("item", st.page, p.x, st.y,
                                                     p.font_size, cur, p.src))]
    IN  IF k > Len(words) THEN (IF cur # <<>> THEN drawn ELSE st)
        ELSE LET word == words[k]
                 word_width == ByteLen(word) * p.avg_char_width_mm
                 extra_space == IF cur = <<>> THEN 0 ELSE p.avg_char_width_mm
                 full == width + extra_space + word_width > p.max_line_width /\ cur # <<>>
                 cur1 == IF full THEN <<>> ELSE cur
                 width1 == IF full THEN 0 ELSE width
             IN  PlainItemWrap(words, k + 1, PushWord(cur1, word),
                       width1 + (IF cur1 = <<>> THEN 0 ELSE p.avg_char_width_mm) + word_width,
                       IF full THEN drawn ELSE st, p)
    ) : words \in {words_}, k \in {k_}, cur \in {cur_}, width \in {width_}, st \in {st_}, p \in {p_}})

\* the items of a list line, each with its bullet, body and gap
RECURSIVE PlainListItems(_, _, _, _)
PlainListItems(items_, n_, st_, src_) ==
    Once({(
    IF n > Len(items) THEN st
    ELSE LET font_size == 10 * PT
             avg_char_width_mm == Max(AvgCharWidth(font_size), MM \div 10)
             bullet_offset == avg_char_width_mm * 2
             st0 == NewPageIfLow(st, bottom_margin)
             rendered_text == strip_leading_marker(Trim(items[n]))
             st1 == [st0 EXCEPT !.draws = Append(st0.draws,
                        UseText("bullet", st0.page, margin_left, st0.y, font_size,
                                <<BULLET>>, src))]
             st2 == PlainItemWrap(SplitWhitespace(rendered_text), 1, <<>>, 0, st1,
                        [avg_char_width_mm |-> avg_char_width_mm,
                         max_line_width |-> plain_usable_width - bullet_offset - 1 * MM,
                         line_step |-> 5 * MM, font_size |-> font_size,
                         x |-> margin_left + bullet_offset, src |-> src])
         IN  PlainListItems(items, n + 1, [st2 EXCEPT !.y = st2.y - 2 * MM], src)
    ) : items \in {items_}, n \in {n_}, st \in {st_}, src \in {src_}})

\* the line that closes the table opened at line k: the first later line holding
\* the closing tag, or the end of the text
RECURSIVE TableEnd(_, _)
TableEnd(ls_, j_) ==
    Once({(
    IF j > Len(ls) THEN j
    ELSE IF Contains(ToLower(Trim(ls[j])), <<"<", "/", "t", "a", "b", "l", "e", ">">>) THEN j
    ELSE TableEnd(ls, j + 1)
    ) : ls \in {ls_}, j \in {j_}})

\* the text of the table: the trimmed opening line and the lines up to the close
TableBlock(ls_, k_) ==
    Once({(
    LET last == Min(TableEnd(ls, k + 1), Len(ls))
    IN  Trim(ls[k]) \o Concat([j \in 1..(last - k) |-> <<NL>> \o ls[k + j]])
    ) : ls \in {ls_}, k \in {k_}})

\* the state at entry: a document with one page, the text cleaned and split
PlainStart ==
    /\ pc = "convert_plain_text"
    /\ lines' = StrLines(clean_markdown_for_plain(arg.markdown))
    /\ i' = 1
    /\ y_position' = page_top
    /\ page' = 1
    /\ draws' = <<>>
    /\ pc' = "plain"
    /\ UNCHANGED <<callVars, blocks, next_block_needs_page_break, current_image_index,
                   coordVars, out_file>>

PlainBlank ==
    /\ pc = "plain" /\ i <= Len(lines)
    /\ IsBlankLine(lines[i])
    /\ y_position' = y_position - 3 * MM
    /\ i' = i + 1
    /\ UNCHANGED <<pc, callVars, lines, blocks, next_block_needs_page_break,
                   current_image_index, coordVars, docVars>>

\* the cursor and page after the page check that precedes every non-blank line
PlainEntry == NewPageIfLow([y |-> y_position, page |-> page, draws |-> draws], bottom_margin)

PlainList ==
    /\ pc = "plain" /\ i <= Len(lines)
    /\ ~IsBlankLine(lines[i])
    /\ is_list_item(Trim(lines[i]))
    /\ LET st == PlainListItems(split_list_items(Trim(lines[i])), 1, PlainEntry, i)
       IN  /\ y_position' = st.y
           /\ page' = st.page
           /\ draws' = st.draws
    /\ i' = i + 1
    /\ UNCHANGED <<pc, callVars, lines, blocks, next_block_needs_page_break,
                   current_image_index, coordVars, out_file>>

PlainTable ==
    /\ pc = "plain" /\ i <= Len(lines)
    /\ ~IsBlankLine(lines[i])
    /\ ~is_list_item(Trim(lines[i]))
    /\ Contains(ToLower(Trim(lines[i])), <<"<", "t", "a", "b", "l", "e", ">">>)
    /\ LET rows == parse_table_html(TableBlock(lines, i))
           st == NewPageIfLow(PlainEntry, table_bottom_margin)
           t == render_html_table(st.page, rows, margin_left, st.y, plain_usable_width,
                                  9 * PT, i)
       IN  IF rows # <<>>
           THEN /\ y_position' = t.y - 5 * MM
                /\ page' = st.page
                /\ draws' = st.draws \o t.draws
           ELSE /\ y_position' = PlainEntry.y
                /\ page' = PlainEntry.page
                /\ draws' = draws
    /\ i' = TableEnd(lines, i + 1) + 1
    /\ UNCHANGED <<pc, callVars, lines, blocks, next_block_needs_page_break,
                   current_image_index, coordVars, out_file>>

PlainText ==
    /\ pc = "plain" /\ i <= Len(lines)
    /\ ~IsBlankLine(lines[i])
    /\ ~is_list_item(Trim(lines[i]))
    /\ ~Contains(ToLower(Trim(lines[i])), <<"<", "t", "a", "b", "l", "e", ">">>)
    /\ LET html == parse_html_tags(Trim(lines[i]))
           style == PlainStyle(html.text)
           avg_char_width_mm == Max(AvgCharWidth(style.font_size), MM \div 10)
           st == PlainWrap(SplitWhitespace(style.text), 1, <<>>, 0, PlainEntry,
                     [avg_char_width_mm |-> avg_char_width_mm,
                      max_line_width |-> Max(plain_usable_width - 1 * MM, avg_char_width_mm),
                      line_step |-> (style.line_spacing * 8) \div 10,
                      font_size |-> style.font_size,
                      is_centered |-> html.centered, src |-> i])
       IN  /\ y_position' = st.y - style.line_spacing
           /\ page' = st.page
           /\ draws' = st.draws
    /\ i' = i + 1
    /\ UNCHANGED <<pc, callVars, lines, blocks, next_block_needs_page_break,
                   current_image_index, coordVars, out_file>>

\* ---------------------------------------------------------------------------
\* Conversions: the inputs and the specifications of the layout engines
\* ---------------------------------------------------------------------------

MaxBlocks == 2
MaxPlainPieces == 2

Repeat(c_, n_) ==
    Once({(
    [k \in 1..n |-> c]
    ) : c \in {c_}, n \in {n_}})

\* a text that fits on one line, with a run of two blanks between its words
SHORT == <<"a", "a", " ", " ", "b", "b">>
\* a text that wraps one word per line in a block of the narrowest width
LONG == <<"a", "a", "a", "a", "a", "a", "a", "a", " ", "b", "b", "b", "b", "b", "b", "b", "b", " ", "c", "c", "c", "c", "c", "c", "c", "c", " ", "d", "d", "d", "d", "d", "d", "d", "d">>
\* two words that do not fit together on one line of the page
WIDE == Repeat("a", 60) \o <<" ">> \o Repeat("b", 60)
\* header lines that bring the cursor of the plain engine to 0.8 mm above the
\* bottom margin
LEAD == Concat(Repeat(<<"#", " ", "a", NL>>, 13)) \o Concat(Repeat(<<"#", "#", "#", " ", "a", NL>>, 2))

\* a block as parse_ocr_blocks emits it, from a box 100 units wide and high
Block(text, x, y, force_page_break, image_index) ==
    [text |-> text, x |-> x, y |-> y, width |-> 100, height |-> 100,
     force_page_break |-> force_page_break, image_index |-> image_index]

\* one block of every kind the loop body distinguishes
LayoutBlocks ==
    {Block(SHORT, 0, 100, FALSE, 0),
     Block(LONG, 0, 400, FALSE, 0),
     Block(LONG, 0, 1400, FALSE, 0),
     Block(<<"-", " ", "E", " ", "-", " ", "F">>, 0, 200, FALSE, 0),
     Block(<<"<", "t", "a", "b", "l", "e", ">", "<", "t", "r", ">", "<", "t", "d", ">", "A", "<", "/", "t", "d", ">", "<", "t", "d", ">", "B", " ", "b", "<", "/", "t", "d", ">", "<", "/", "t", "r", ">", "<", "/", "t", "a", "b", "l", "e", ">">>, 500, 300, FALSE, 0),
     Block(<<"<", "c", "e", "n", "t", "e", "r", ">", "<", "/", "c", "e", "n", "t", "e", "r", ">">>, 0, 50, FALSE, 0),
     Block(<<"#", " ", "T">>, 0, 10, FALSE, 0),
     Block(Hashes(U8Max + 1) \o <<" ", "T">>, 0, 10, FALSE, 0)}

\* a plain text at every position, break flag and image index
CoordYs == {20, 100, 400, 1400}
GridBlocks ==
    {Block(SHORT, 0, y, f, n) : y \in CoordYs, f \in BOOLEAN, n \in {0, 1}}

\* the markdown of the plain engine, line by line
PlainPieces ==
    {LEAD, <<NL>>, <<"a", "a", " ", " ", "b", "b", NL>>, <<"c", "c", NL, NL>>, WIDE \o <<NL>>, <<"-", " ", "x", " ", "-", " ", "y", NL>>,
     <<"<", "t", "a", "b", "l", "e", ">", "<", "t", "r", ">", "<", "t", "d", ">", "A", "<", "/", "t", "d", ">", "<", "/", "t", "r", ">", "<", "/", "t", "a", "b", "l", "e", ">", NL>>}

PlainTexts == {Concat(p) : p \in SeqUpTo(PlainPieces, MaxPlainPieces)}

\* state at the entry of a conversion; the blocks are those parse_ocr_blocks
\* returned, and the markdown is kept when it is read again (no block parsed)
ConversionEntry(fn, markdown, parsed) ==
    /\ pc = fn
    /\ arg = [fn |-> fn, markdown |-> markdown]
    /\ ret = NoRet
    /\ lines = <<>>
    /\ i = 1
    /\ blocks = parsed
    /\ next_block_needs_page_break = FALSE
    /\ current_image_index = 0
    /\ LayoutIdle

InitCoord ==
    \E bs \in SeqUpTo(GridBlocks \cup LayoutBlocks, MaxBlocks) :
        /\ bs # <<>>
        /\ ConversionEntry("convert_with_coordinates", <<>>, bs)

InitLayout ==
    \/ \E bs \in SeqUpTo(LayoutBlocks, MaxBlocks) :
          /\ bs # <<>>
          /\ ConversionEntry("convert_with_coordinates", <<>>, bs)
    \/ \E md \in PlainTexts : ConversionEntry("convert_plain_text", md, <<>>)
    \/ \E md \in PlainPieces : ConversionEntry("convert_with_coordinates", md, <<>>)

NextCoord ==
    \/ CoordStart
    \/ CoordSkip
    \/ CoordBlock
    \/ CoordPanic
    \/ Save

NextPlain ==
    \/ PlainStart
    \/ PlainBlank
    \/ PlainList
    \/ PlainTable
    \/ PlainText
    \/ Save

NextLayout ==
    \/ CoordFallback
    \/ NextCoord
    \/ NextPlain

SpecCoord == InitCoord /\ [][NextCoord]_vars

SpecLayout == InitLayout /\ [][NextLayout]_vars

\* ---------------------------------------------------------------------------
\* Properties of the layout engines
\* ---------------------------------------------------------------------------

\* the text runs of flowed text drawn for block (or line) src, in emission order
IsFlowedRun(d) == d.kind = "text"
FlowedRuns == SelectSeq(draws, IsFlowedRun)
RunsOf(src_) ==
    Once({(
    LET OfSrc(d) == d.kind = "text" /\ d.src = src
        runs == SelectSeq(draws, OfSrc)
    IN  [n \in 1..Len(runs) |-> runs[n].text]
    ) : src \in {src_}})

\* the pages on which something was drawn for block src
PagesOf(src_) ==
    Once({(
    {draws[n].page : n \in {m \in 1..Len(draws) : draws[m].src = src}}
    ) : src \in {src_}})

\* a text without any list, header, table or HTML marker
MarkerChars == {"#", "<", ">", "-", "*", "|", BULLET, CHECKBOX}
MarkerFree(t_) ==
    Once({(
    \A n \in 1..Len(t) : t[n] \notin MarkerChars /\ ~IsDigit(t[n])
    ) : t \in {t_}})

\* the words of a sequence of lines, in order
WordsOf(ls) == SplitWhitespace(Join(ls, <<" ">>))

\* C1: in coordinate mode, of two blocks with non-empty text and image indices 0 and
\* 1, where block 1's raw vertical position is less than block 0's minus 50, block 1
\* is drawn on a later page than block 0, whatever block 0's position
C1_BackwardJumpNewPage ==
    (/\ pc = "coord"
     /\ Len(sorted_blocks) = 2 /\ bi > 2
     /\ sorted_blocks[1].image_index = 0 /\ sorted_blocks[2].image_index = 1
     /\ sorted_blocks[2].y < sorted_blocks[1].y - 50
     /\ PagesOf(1) # {} /\ PagesOf(2) # {})
    => \A p \in PagesOf(1) : \A q \in PagesOf(2) : q > p

\* C5: for every marker-free block, in both layout modes, the lines emitted for the
\* block, joined by single spaces, equal the block's words joined by single spaces
C5_WrapFidelity ==
    /\ \A k \in 1..Len(sorted_blocks) :
          (pc = "coord" /\ k < bi /\ MarkerFree(sorted_blocks[k].text))
          => Join(RunsOf(k), <<" ">>) = Join(SplitWhitespace(sorted_blocks[k].text), <<" ">>)
    /\ \A k \in 1..Len(lines) :
          (pc = "plain" /\ k < i /\ MarkerFree(lines[k]))
          => Join(RunsOf(k), <<" ">>) = Join(SplitWhitespace(lines[k]), <<" ">>)

\* the flowed text groups, each named by the line it was drawn for, in emission order
GroupSources ==
    LET F[n \in 0..Len(FlowedRuns)] ==
            IF n = 0 THEN <<>>
            ELSE IF n > 1 /\ FlowedRuns[n - 1].src = FlowedRuns[n].src THEN F[n - 1]
            ELSE Append(F[n - 1], FlowedRuns[n].src)
    IN  F[Len(FlowedRuns)]

\* a line without any word; the lines before line n that hold a word, in order
HasNoWord(line_) ==
    Once({(
    \A n \in 1..Len(line) : IsWs(line[n])
    ) : line \in {line_}})
WordLinesBefore(n_) ==
    Once({(
    LET F[k \in 0..Len(lines)] ==
            IF k = 0 THEN <<>>
            ELSE IF k < n /\ ~HasNoWord(lines[k]) THEN Append(F[k - 1], k) ELSE F[k - 1]
    IN  F[Len(lines)]
    ) : n \in {n_}})

\* the paragraphs: maximal runs of consecutive lines that hold a word
Paragraphs ==
    {k \in 1..Len(lines) : ~HasNoWord(lines[k]) /\ (k = 1 \/ HasNoWord(lines[k - 1]))}

MarkerFreeInput == \A k \in 1..Len(lines) : MarkerFree(lines[k])

\* C6 as stated: a marker-free input of N blank-line-separated paragraphs, each of
\* one or more consecutive non-blank lines, yields exactly N flowed text groups
C6_ParagraphCount ==
    (pc = "plain" /\ i > Len(lines) /\ MarkerFreeInput)
    => Len(GroupSources) = Cardinality(Paragraphs)

\* C6: in plain mode a marker-free input yields exactly one flowed text group per
\* non-blank line, in source order, each holding the words of its line; N
\* blank-line-separated paragraphs of one line each yield exactly N groups
C6_GroupPerLine ==
    (pc = "plain" /\ MarkerFreeInput)
    => /\ GroupSources = WordLinesBefore(i)
       /\ \A k \in 1..Len(lines) :
             k < i => WordsOf(RunsOf(k)) = SplitWhitespace(lines[k])

\* two paragraphs separated by a blank line have been laid out, one of them wrapped
C6_Witness ==
    /\ pc = "plain" /\ i > Len(lines) /\ MarkerFreeInput
    /\ Cardinality(Paragraphs) = 2
    /\ Len(GroupSources) = 2
    /\ \E k \in 1..Len(lines) : Len(RunsOf(k)) > 1

(***************************************************************************)
(* The table back ends on rows of unequal length                           *)
(***************************************************************************)
MaxTableRows == 2
MaxRowCells == 2

\* the column widths of build_ascii_table: the longest cell of each column, in bytes
\* (main.rs 1033-1040)
AsciiColWidths(rows_) ==
    Once({(
    [c \in 1..MaxOfSeq([r \in 1..Len(rows) |-> Len(rows[r])]) |->
        MaxOfSeq([r \in 1..Len(rows) |-> IF c <= Len(rows[r]) THEN ByteLen(rows[r][c]) ELSE 0])]
    ) : rows \in {rows_}})

\* the closure border_line (main.rs 1042-1050)
border_line(widths_) ==
    Once({(
    <<"+">> \o Concat([c \in 1..Len(widths) |-> [k \in 1..(widths[c] + 2) |-> "-"] \o <<"+">>])
    ) : widths \in {widths_}})

\* format!(" {:width$} ", cell_text): the text, filled with blanks up to `width`
\* characters, between two blanks (main.rs 1061)
PadCell(cell_text_, width_) ==
    Once({(
    <<" ">> \o cell_text \o [k \in 1..Max(width - Len(cell_text), 0) |-> " "] \o <<" ">>
    ) : cell_text \in {cell_text_}, width \in {width_}})

\* one row line: every column of the table, a missing cell read as "" (main.rs 1057-1064)
AsciiRow(row_, widths_) ==
    Once({(
    <<"|">> \o Concat([c \in 1..Len(widths) |->
                PadCell(IF c <= Len(row) THEN row[c] ELSE <<>>, widths[c]) \o <<"|">>])
    ) : row \in {row_}, widths \in {widths_}})

\* build_ascii_table (main.rs 1021-1070)
build_ascii_table(rows_) ==
    Once({(
    IF rows = <<>> \/ AsciiColWidths(rows) = <<>> THEN <<>>
    ELSE <<border_line(AsciiColWidths(rows))>>
         \o Concat([r \in 1..Len(rows) |->
                       <<AsciiRow(rows[r], AsciiColWidths(rows)),
                         border_line(AsciiColWidths(rows))>>])
    ) : rows \in {rows_}})

\* tables of at most MaxTableRows rows of 1 to MaxRowCells cells (parse_table_html
\* returns no row without a cell, main.rs 901)
TableCells == {<<"A">>, <<"B", " ", "C">>}
TableRowsInputs == SeqUpTo(SeqUpTo(TableCells, MaxRowCells) \ {<<>>}, MaxTableRows)

InitTable ==
    /\ pc = "call"
    /\ arg \in {[fn |-> f, rows |-> rows] :
                  f \in {"render_html_table", "build_ascii_table"}, rows \in TableRowsInputs}
    /\ ret = NoRet
    /\ ParserIdle
    /\ LayoutIdle

\* the call of the plain-mode engine (main.rs 1785)
Call_render_html_table ==
    /\ pc = "call" /\ arg.fn = "render_html_table"
    /\ ret' = [panic |-> FALSE,
               table |-> render_html_table(1, arg.rows, margin_left, page_top,
                                           plain_usable_width, 9 * PT, 1)]
    /\ pc' = "return"
    /\ UNCHANGED <<arg, parserVars, layoutVars>>

Call_build_ascii_table ==
    /\ pc = "call" /\ arg.fn = "build_ascii_table"
    /\ ret' = [panic |-> FALSE, ascii_lines |-> build_ascii_table(arg.rows)]
    /\ pc' = "return"
    /\ UNCHANGED <<arg, parserVars, layoutVars>>

NextTable == Call_render_html_table \/ Call_build_ascii_table

SpecTable == InitTable /\ [][NextTable]_vars

\* the number of cells of the widest row
WidestRow(rows_) ==
    Once({(
    MaxOfSeq([r \in 1..Len(rows) |-> Len(rows[r])])
    ) : rows \in {rows_}})

\* the vertical segments among the drawing operations t
VerticalLines(t_) ==
    Once({(
    {k \in 1..Len(t) : t[k].kind = "line" /\ t[k].x = t[k].x2}
    ) : t \in {t_}})

\* C11: every row of a table gets the slots of the widest row.  In the output of
\* render_html_table every row (the vertical segments that start at one height) has
\* widest-row cell count + 1 vertical separators; every row line of
\* build_ascii_table has widest-row cell count + 1 '|' separators (the cells of the
\* inputs hold no '|').
C11_RaggedRows ==
    /\ (pc = "return" /\ arg.fn = "render_html_table") =>
          \A k \in VerticalLines(ret.table.draws) :
              Cardinality({m \in VerticalLines(ret.table.draws) :
                              ret.table.draws[m].y = ret.table.draws[k].y})
                  = WidestRow(arg.rows) + 1
    /\ (pc = "return" /\ arg.fn = "build_ascii_table") =>
          \A n \in 1..Len(ret.ascii_lines) :
              ret.ascii_lines[n][1] = "|" =>
                  Cardinality({k \in 1..Len(ret.ascii_lines[n]) : ret.ascii_lines[n][k] = "|"})
                      = WidestRow(arg.rows) + 1

\* the part of C11 about build_ascii_table alone
C11_AsciiRows ==
    (pc = "return" /\ arg.fn = "build_ascii_table") =>
        /\ Len(ret.ascii_lines) = (IF WidestRow(arg.rows) = 0 THEN 0 ELSE 2 * Len(arg.rows) + 1)
        /\ \A n \in 1..Len(ret.ascii_lines) :
              ret.ascii_lines[n][1] = "|" =>
                  Cardinality({k \in 1..Len(ret.ascii_lines[n]) : ret.ascii_lines[n][k] = "|"})
                      = WidestRow(arg.rows) + 1

\* C12: the output path never holds a partially written document: it is as it was
\* before the conversion (absent) or holds the complete document; a conversion that
\* ends in error leaves it as it was, one that ends well leaves the complete document.
C12_NoPartialOutput ==
    /\ out_file \in {"absent", "complete"}
    /\ (pc = "done" => out_file = "complete")
    /\ (pc = "error" => out_file = "absent")

(***************************************************************************)
(* The plain engine near the bottom of a page                              *)
(***************************************************************************)
TallTableRows == 6

\* header lines that bring the cursor of the plain engine to 51.4 mm, just above
\* the threshold under which a table starts on a new page
LEAD50 == Concat(Repeat(<<"#", " ", "a", NL>>, 12)) \o <<"#", "#", "#", " ", "a", NL>>

\* a table of TallTableRows one-cell rows, on one line
TALL_TABLE ==
    <<"<", "t", "a", "b", "l", "e", ">">> \o Concat(Repeat(<<"<", "t", "r", ">", "<", "t", "d", ">", "A", "<", "/", "t", "d", ">", "<", "/", "t", "r", ">">>, TallTableRows)) \o <<"<", "/", "t", "a", "b", "l", "e", ">", NL>>

\* what follows the header lines: a paragraph, a list item and a list item of two
\* lines, a table, a blank line
PageTails ==
    {WIDE \o <<NL>>, <<"-", " ", "x", " ", "-", " ", "y", NL>>, <<"-", " ">> \o WIDE \o <<NL>>, TALL_TABLE, <<NL, "c", "c", NL>>}

PageTexts == {lead \o tail : lead \in {LEAD, LEAD50}, tail \in PageTails}

InitPlainPages == \E md \in PageTexts : ConversionEntry("convert_plain_text", md, <<>>)

SpecPlainPages == InitPlainPages /\ [][NextPlain]_vars

\* C13: in plain mode nothing is drawn below the bottom threshold of its page:
\* every text run (paragraph line, bullet, list item line, table cell) and every
\* border of a table row lies at or above bottom_margin.
C13_NoDrawBelowBottom ==
    \A n \in 1..Len(draws) : draws[n].y >= bottom_margin /\ draws[n].y2 >= bottom_margin

\* the part of C13 about paragraph lines alone
C13_ParagraphLines ==
    \A n \in 1..Len(draws) : draws[n].kind = "text" => draws[n].y >= bottom_margin

\* the part of C13 about the rows of a table alone
C13_TableRows ==
    \A n \in 1..Len(draws) :
        draws[n].kind \in {"cell", "line"} =>
            draws[n].y >= bottom_margin /\ draws[n].y2 >= bottom_margin

\* the part of C13 about the lines of list items alone
C13_ItemLines ==
    \A n \in 1..Len(draws) : draws[n].kind \in {"item", "bullet"} => draws[n].y >= bottom_margin

\* C14: in coordinate mode no text line is drawn below the bottom margin: the first
\* line of a block, a wrapped continuation line, a bullet or a list item line all
\* lie at or above margin.
C14_NoLineBelowMargin ==
    \A n \in 1..Len(draws) :
        draws[n].kind \in {"text", "item", "bullet"} => draws[n].y >= margin

\* the part of C14 about wrapped continuation lines: a line of a block that is not
\* the first one drawn for the block
C14_ContinuationLines ==
    \A n \in 2..Len(draws) :
        (draws[n].kind = "text" /\ draws[n - 1].kind = "text" /\ draws[n - 1].src = draws[n].src)
            => draws[n].y >= margin

(***************************************************************************)
(* The processing order of the coordinate engine                           *)
(***************************************************************************)
MaxOrderBlocks == 3

\* blocks of two images at two heights; two texts tell blocks of equal image and
\* height apart, and the second text is empty after cleaning
OrderBlocks ==
    {Block(t, 0, y, FALSE, n) : t \in {<<"a">>, <<"<", "c", "e", "n", "t", "e", "r", ">", "<", "/", "c", "e", "n", "t", "e", "r", ">">>}, y \in {100, 400}, n \in {0, 1}}

InitOrder ==
    \E bs \in SeqUpTo(OrderBlocks, MaxOrderBlocks) :
        /\ bs # <<>>
        /\ ConversionEntry("convert_with_coordinates", <<>>, bs)

\* the coordinate engine on blocks whose header counter does not overflow
NextOrder ==
    \/ CoordStart
    \/ CoordSkip
    \/ CoordBlock
    \/ Save

SpecOrder == InitOrder /\ [][NextOrder]_vars

\* the blocks of s with the image index and the vertical position of b, in order
SameKey(s_, b_) ==
    Once({(
    LET Same(c) == c.image_index = b.image_index /\ c.y = b.y
    IN  SelectSeq(s, Same)
    ) : s \in {s_}, b \in {b_}})

\* how often b occurs in s
Occurrences(s_, b_) ==
    Once({(
    Cardinality({k \in 1..Len(s) : s[k] = b})
    ) : s \in {s_}, b \in {b_}})

MaxColumnBlocks == 3

\* a header and plain texts at the bottom of the left column, a short and a long
\* text at the bottom of the right column, and a text that is empty after cleaning
ColumnBlocks ==
    {Block(<<"#", " ", "T">>, 0, 1400, FALSE, 0),
     Block(SHORT, 0, 1400, FALSE, 0),
     Block(SHORT, 0, 400, FALSE, 0),
     Block(SHORT, 600, 1400, FALSE, 0),
     Block(LONG, 600, 1400, FALSE, 0),
     Block(<<"<", "c", "e", "n", "t", "e", "r", ">", "<", "/", "c", "e", "n", "t", "e", "r", ">">>, 0, 400, FALSE, 0)}

InitColumns ==
    \E bs \in SeqUpTo(ColumnBlocks, MaxColumnBlocks) :
        /\ bs # <<>>
        /\ ConversionEntry("convert_with_coordinates", <<>>, bs)

SpecColumns == InitColumns /\ [][NextOrder]_vars

\* the block is in the left column
IsLeftColumn(block) == Min(Scaled(block.x) + margin, usable_width) < 95 * MM

\* the draws of the blocks of the column of b, in order
ColumnDraws(ds, b) ==
    LET InColumn(d) == IsLeftColumn(sorted_blocks[d.src]) = IsLeftColumn(b)
    IN  SelectSeq(ds, InColumn)

\* the step places the block at bi behind an earlier block of its column whose
\* last line is on the page the first line of the block is drawn on
PlacedBehind ==
    /\ pc = "coord" /\ bi <= Len(sorted_blocks) /\ bi' = bi + 1
    /\ Len(draws') > Len(draws)
    /\ ColumnDraws(draws, sorted_blocks[bi]) # <<>>
    /\ ColumnDraws(draws, sorted_blocks[bi])[Len(ColumnDraws(draws, sorted_blocks[bi]))].page
          = draws'[Len(draws) + 1].page

\* the position recorded for the column of the block at bi
RecordedPosition == IF IsLeftColumn(sorted_blocks[bi]) THEN last_y_left ELSE last_y_right

\* C16: of two blocks placed one after the other in the same column on the same page,
\* the first line of the later one is drawn at least the minimum gap below the
\* position recorded for the last line of the earlier one, whatever that position is.
C16_ColumnGap ==
    [][PlacedBehind =>
          draws'[Len(draws) + 1].y
              <= RecordedPosition - MinSpacing(BaseFontSize(sorted_blocks[bi].height))]_vars

\* the same for a recorded position above zero
C16_GapAbovePageBottom ==
    [][(PlacedBehind /\ RecordedPosition > 0) =>
          draws'[Len(draws) + 1].y
              <= RecordedPosition - MinSpacing(BaseFontSize(sorted_blocks[bi].height))]_vars

(***************************************************************************)
(* Termination                                                             *)
(***************************************************************************)
MaxRunPieces == 2
MaxRunBlocks == 2

\* the lines of a run of the parser, in groups: two tagged blocks, a tag whose
\* slice panics, the two sentinels, a line of text
RunPieces ==
    {<<TAG1, <<"A">>>>, <<TAG2, <<"B">>, <<" ", "C">>>>, <<<<"<", "|", "/", "d", "e", "t", "|", ">", "x", "<", "|", "d", "e", "t", "|", ">">>>>,
     <<PAGE_BREAK>>, <<<<"-", "-", "-", "I", "M", "A", "G", "E", "_", "I", "N", "D", "E", "X", ":", "1", "-", "-", "-">>>>, <<<<"D">>>>}

\* a run of the parser, of the coordinate engine (on blocks of the two columns, and
\* on one block of every kind) or of the plain engine
InitRun ==
    \/ /\ pc = "parse"
       /\ lines \in {Concat(p) : p \in SeqUpTo(RunPieces, MaxRunPieces)}
       /\ i = 1
       /\ blocks = <<>>
       /\ next_block_needs_page_break = FALSE
       /\ current_image_index = 0
       /\ arg = [fn |-> "parse_ocr_blocks"]
       /\ ret = NoRet
       /\ LayoutIdle
    \/ \E bs \in SeqUpTo(ColumnBlocks, MaxRunBlocks)
                  \cup {<<b>> : b \in {c \in LayoutBlocks : Len(c.text) <= U8Max}} :
          /\ bs # <<>>
          /\ ConversionEntry("convert_with_coordinates", <<>>, bs)
    \/ \E md \in PlainPieces \cup {<<"c", "c", NL, NL, "c", "c", NL>>} :
          ConversionEntry("convert_plain_text", md, <<>>)

\* the steps of the three functions (a header counter that overflows wraps around)
NextRun ==
    \/ ParseImageIndex
    \/ ParsePageBreak
    \/ ParseDetBlock
    \/ ParseDetPanic
    \/ ParseSkipLine
    \/ ParseReturn
    \/ CoordStart
    \/ CoordSkip
    \/ CoordBlock
    \/ PlainStart
    \/ PlainBlank
    \/ PlainList
    \/ PlainTable
    \/ PlainText
    \/ Save

\* the program is sequential and never suspends: a step that can be taken is taken
SpecRun == InitRun /\ [][NextRun]_vars /\ WF_vars(NextRun)

\* the running function has returned, or the process has ended
Terminated == pc \in {"done", "error", "panic"}

\* C17: every run of parse_ocr_blocks, convert_plain_text and
\* convert_with_coordinates on a finite input terminates, and every iteration of
\* a scanning loop advances the index of the loop by at least one.
C17_Termination ==
    /\ <>Terminated
    /\ [][/\ (pc = "parse" /\ pc' = "parse") => i' > i
          /\ (pc = "plain" /\ pc' = "plain") => i' > i
          /\ (pc = "coord" /\ pc' = "coord") => bi' > bi]_vars

\* the parser has returned after a line scan that collected two text lines after a
\* tag and passed a sentinel and a line without a tag
C17_Witness ==
    /\ pc = "done"
    /\ arg.fn = "parse_ocr_blocks"
    /\ i > Len(lines)
    /\ Len(lines) >= 4
    /\ \E k \in 1..Len(lines) : lines[k] = PAGE_BREAK
    /\ \E k \in 1..Len(blocks) : blocks[k].text = <<"B", " ", "C">>

(***************************************************************************)
(* The pending-break flag of the parser                                    *)
(***************************************************************************)
\* the line scan of parse_ocr_blocks emits a block at line j
EmitsBlock(ls_, j_) ==
    Once({(
    /\ ~IsImageIndexLine(ls[j]) /\ ~IsPageBreakLine(ls[j])
    /\ HasDetPair(ls[j]) /\ ~DetSlicePanics(ls[j])
    /\ DetCoords(ls[j]).ok
    /\ TextLines(ls, j + 1) # <<>>
    ) : ls \in {ls_}, j \in {j_}})

\* the indices of the tag lines at which the scan from line j emits a block, in order
RECURSIVE TagLines(_, _)
TagLines(ls_, j_) ==
    Once({(
    IF j > Len(ls) THEN <<>>
    ELSE IF IsImageIndexLine(ls[j]) \/ IsPageBreakLine(ls[j]) \/ ~HasDetPair(ls[j])
    THEN TagLines(ls, j + 1)
    ELSE IF DetSlicePanics(ls[j]) THEN <<>>
    ELSE IF ~DetCoords(ls[j]).ok THEN TagLines(ls, j + 1)
    ELSE IF EmitsBlock(ls, j) THEN <<j>> \o TagLines(ls, TextEnd(ls, j + 1))
    ELSE TagLines(ls, TextEnd(ls, j + 1))
    ) : ls \in {ls_}, j \in {j_}})

C18_FlagSteps ==
    [][/\ Len(blocks') = Len(blocks) + 1 =>
              /\ blocks'[Len(blocks')].force_page_break = next_block_needs_page_break
              /\ ~next_block_needs_page_break'
              /\ SubSeq(blocks', 1, Len(blocks)) = blocks
       /\ (Len(blocks') = Len(blocks) /\ pc = "parse" /\ i <= Len(lines)) =>
              /\ blocks' = blocks
              /\ next_block_needs_page_break'
                    = (next_block_needs_page_break \/ IsPageBreakLine(lines[i]))]_vars

(***************************************************************************)
(* Explicit page breaks in the coordinate engine                           *)
(***************************************************************************)
MaxBreakBlocks == 3

\* blocks of one image at two heights, with and without the break flag, with a text
\* and with a text that is empty after cleaning
BreakBlocks ==
    {Block(t, 0, y, f, 0) : t \in {<<"a">>, <<"<", "c", "e", "n", "t", "e", "r", ">", "<", "/", "c", "e", "n", "t", "e", "r", ">">>}, y \in {100, 400}, f \in BOOLEAN}

InitBreaks ==
    \E bs \in SeqUpTo(BreakBlocks, MaxBreakBlocks) :
        /\ bs # <<>>
        /\ ConversionEntry("convert_with_coordinates", <<>>, bs)

SpecBreaks == InitBreaks /\ [][NextOrder]_vars

\* the blocks from position k on whose text is not empty after cleaning
WithText(k_) ==
    Once({(
    {m \in k..Len(sorted_blocks) : BlockText(sorted_blocks[m]).text # <<>>}
    ) : k \in {k_}})

\* the first of them
FirstWithText(k_) ==
    Once({(
    CHOOSE m \in WithText(k) : \A n \in WithText(k) : m <= n
    ) : k \in {k_}})

\* the last page in use before block m is placed
PageBefore(m_) ==
    Once({(
    LET used == {1} \cup {draws[n].page : n \in {q \in 1..Len(draws) : draws[q].src < m}}
    IN  CHOOSE p \in used : \A q \in used : q <= p
    ) : m \in {m_}})

\* C19: for every block whose force_page_break flag is set, the first block with
\* non-empty cleaned text processed at or after it starts on a newly created page,
\* also when the flagged block itself is skipped.
C19_BreakNeverLost ==
    \A k \in 1..Len(sorted_blocks) :
        (sorted_blocks[k].force_page_break /\ WithText(k) # {} /\ FirstWithText(k) < bi) =>
            /\ PagesOf(FirstWithText(k)) # {}
            /\ \A p \in PagesOf(FirstWithText(k)) : p > PageBefore(FirstWithText(k))

\* a flagged block was skipped, and the unflagged block after it was placed on the
\* second page
C19_Witness ==
    /\ pc = "coord"
    /\ Len(sorted_blocks) = 3
    /\ bi = 4
    /\ PagesOf(1) = {1}
    /\ sorted_blocks[2].force_page_break /\ WithText(2) = {3}
    /\ ~sorted_blocks[3].force_page_break
    /\ PagesOf(3) = {2}

(***************************************************************************)
(* Page overflow in the coordinate engine                                  *)
(***************************************************************************)
MaxOverflowBlocks == 3

\* unflagged blocks of one image, one on the first page height and three below it,
\* and a text that is empty after cleaning
OverflowBlocks ==
    {Block(<<"a">>, 0, y, FALSE, 0) : y \in {100, 1500, 1600, 3000}}
        \cup {Block(<<"<", "c", "e", "n", "t", "e", "r", ">", "<", "/", "c", "e", "n", "t", "e", "r", ">">>, 0, 1500, FALSE, 0)}

InitOverflow ==
    \E bs \in SeqUpTo(OverflowBlocks, MaxOverflowBlocks) :
        /\ bs # <<>>
        /\ ConversionEntry("convert_with_coordinates", <<>>, bs)

SpecOverflow == InitOverflow /\ [][NextOrder]_vars

\* no break is pending when block m is placed: no block up to it is flagged or
\* lies a backward jump above its predecessor
NotForced(m_) ==
    Once({(
    \A k \in 1..m :
        /\ ~sorted_blocks[k].force_page_break
        /\ k > 1 => ~BackwardJump(sorted_blocks[k - 1].y, sorted_blocks[k].y)
    ) : m \in {m_}})

\* block m was placed and opened a new page by overflow
OpenedByOverflow(m_) ==
    Once({(
    /\ m < bi
    /\ NotForced(m)
    /\ PagesOf(m) # {}
    /\ \A p \in PagesOf(m) : p > PageBefore(m)
    ) : m \in {m_}})

\* C20: after a block opens a new page by overflow, the logical top of the page is
\* the vertical position of that block: the block is placed at the top of the new
\* page, and a following unflagged block of the same image within the usable page
\* height of it is placed on the same page.
C20_OverflowTop ==
    \A m \in 1..Len(sorted_blocks) :
        (pc = "coord" /\ OpenedByOverflow(m)) =>
            /\ bi = m + 1 => page_start_y = Scaled(sorted_blocks[m].y)
            /\ \A n \in 1..Len(draws) :
                  draws[n].src = m => draws[n].y = page_height - margin
            /\ (/\ m + 1 < bi
                /\ NotForced(m + 1)
                /\ sorted_blocks[m + 1].image_index = sorted_blocks[m].image_index
                /\ Scaled(sorted_blocks[m + 1].y) - Scaled(sorted_blocks[m].y) <= usable_height
                /\ PagesOf(m + 1) # {})
               => PagesOf(m + 1) = PagesOf(m)

(***************************************************************************)
(* The lines of a table in plain mode                                      *)
(***************************************************************************)
\* the line holds the opening, the closing marker of a table
IsTableOpen(line) == Contains(ToLower(Trim(line)), <<"<", "t", "a", "b", "l", "e", ">">>)
IsTableClose(line) == Contains(ToLower(Trim(line)), <<"<", "/", "t", "a", "b", "l", "e", ">">>)

\* line k lies behind the opening line of a table that is not closed before it
InsideTable(k_) ==
    Once({(
    \E o \in 1..(k - 1) :
        /\ IsTableOpen(lines[o])
        /\ \A j \in o..(k - 1) : ~IsTableClose(lines[j])
    ) : k \in {k_}})

\* something was drawn for line k
RenderedLine(k_) ==
    Once({(
    \E n \in 1..Len(draws) : draws[n].src = k
    ) : k \in {k_}})

MaxLinePieces == 3

\* a table on one line, a table on three lines, a line of text, a blank line, a list
LinePieces ==
    {<<"<", "t", "a", "b", "l", "e", ">", "<", "t", "r", ">", "<", "t", "d", ">", "A", "<", "/", "t", "d", ">", "<", "/", "t", "r", ">", "<", "/", "t", "a", "b", "l", "e", ">", NL>>,
     <<"<", "t", "a", "b", "l", "e", ">", NL, "<", "t", "r", ">", "<", "t", "d", ">", "B", "<", "/", "t", "d", ">", "<", "/", "t", "r", ">", NL, "<", "/", "t", "a", "b", "l", "e", ">", NL>>,
     <<"c", "c", NL>>, <<NL>>, <<"-", " ", "x", " ", "-", " ", "y", NL>>}

InitPlainLines ==
    \E p \in SeqUpTo(LinePieces, MaxLinePieces) :
        ConversionEntry("convert_plain_text", Concat(p), <<>>)

SpecPlainLines == InitPlainLines /\ [][NextPlain]_vars

\* C21: in plain mode a table consumes exactly the lines from its opening line
\* through the first line that holds the close marker, the opening line included,
\* and every non-blank line after the close marker is rendered as a block of its own.
C21_TableLines ==
    /\ [][(/\ pc = "plain" /\ i <= Len(lines)
           /\ ~IsBlankLine(lines[i])
           /\ ~is_list_item(Trim(lines[i]))
           /\ IsTableOpen(lines[i]))
          => Min(i', Len(lines) + 1) = Min(TableEnd(lines, i) + 1, Len(lines) + 1)]_vars
    /\ [](pc = "done" =>
            \A k \in 1..Len(lines) :
                (~IsBlankLine(lines[k]) /\ ~InsideTable(k)) => RenderedLine(k))

\* the same for the tables whose opening line does not hold the close marker
C21_MultiLineTable ==
    /\ [][(/\ pc = "plain" /\ i <= Len(lines)
           /\ ~IsBlankLine(lines[i])
           /\ ~is_list_item(Trim(lines[i]))
           /\ IsTableOpen(lines[i]) /\ ~IsTableClose(lines[i]))
          => Min(i', Len(lines) + 1) = Min(TableEnd(lines, i) + 1, Len(lines) + 1)]_vars
    /\ [](pc = "done" /\ (\A k \in 1..Len(lines) : IsTableOpen(lines[k]) => ~IsTableClose(lines[k])) =>
            \A k \in 1..Len(lines) :
                (~IsBlankLine(lines[k]) /\ ~InsideTable(k)) => RenderedLine(k))

(***************************************************************************)
(* Tables without rows                                                     *)
(***************************************************************************)
MaxEmptyTablePieces == 3
MaxEmptyTableBlocks == 2

\* plain mode: a table without rows on one line and on two lines, a line of text,
\* a blank line, a list, and the header lines that bring the cursor to the bottom
EmptyTablePieces ==
    {<<"<", "t", "a", "b", "l", "e", ">", "<", "/", "t", "a", "b", "l", "e", ">", NL>>, <<"<", "t", "a", "b", "l", "e", ">", NL, "<", "/", "t", "a", "b", "l", "e", ">", NL>>, <<"c", "c", NL>>, <<NL>>, <<"-", " ", "x", " ", "-", " ", "y", NL>>, LEAD}

\* coordinate mode: a table without rows on the first page height and below it, with
\* and without the break flag, texts, and a text that is empty after cleaning
EmptyTableBlocks ==
    {Block(<<"<", "t", "a", "b", "l", "e", ">", "<", "/", "t", "a", "b", "l", "e", ">">>, 0, y, f, 0) : y \in {200, 1500}, f \in BOOLEAN}
        \cup {Block(<<"a">>, 0, y, FALSE, 0) : y \in {100, 300}}
        \cup {Block(<<"<", "c", "e", "n", "t", "e", "r", ">", "<", "/", "c", "e", "n", "t", "e", "r", ">">>, 0, 100, FALSE, 0)}

InitEmptyTables ==
    \/ \E p \in SeqUpTo(EmptyTablePieces, MaxEmptyTablePieces) :
          ConversionEntry("convert_plain_text", Concat(p), <<>>)
    \/ \E bs \in SeqUpTo(EmptyTableBlocks, MaxEmptyTableBlocks) :
          /\ bs # <<>>
          /\ ConversionEntry("convert_with_coordinates", <<>>, bs)

\* the steps of the two layout engines (a header counter that overflows wraps around)
NextEngines ==
    \/ CoordStart
    \/ CoordSkip
    \/ CoordBlock
    \/ PlainStart
    \/ PlainBlank
    \/ PlainList
    \/ PlainTable
    \/ PlainText
    \/ Save

SpecEmptyTables == InitEmptyTables /\ [][NextEngines]_vars

\* the plain engine is at a table that yields no rows
PlainEmptyTable ==
    /\ pc = "plain" /\ i <= Len(lines)
    /\ ~IsBlankLine(lines[i])
    /\ ~is_list_item(Trim(lines[i]))
    /\ IsTableOpen(lines[i])
    /\ parse_table_html(TableBlock(lines, i)) = <<>>

\* the coordinate engine is at a block that holds a table that yields no rows
CoordEmptyTable ==
    /\ pc = "coord" /\ bi <= Len(sorted_blocks)
    /\ BlockText(sorted_blocks[bi]).text # <<>>
    /\ Contains(ToLower(BlockText(sorted_blocks[bi]).text), <<"<", "t", "a", "b", "l", "e", ">">>)
    /\ parse_table_html(BlockText(sorted_blocks[bi]).text) = <<>>

\* C22: a table that yields no rows is skipped silently in both modes: nothing is
\* drawn for it, the layout cursor (the vertical position in plain mode, the last
\* positions of the columns in coordinate mode) is unchanged, no error is raised,
\* and what follows the table is processed next.
C22_EmptyTableSkipped ==
    [][/\ PlainEmptyTable =>
            /\ draws' = draws
            /\ y_position' = y_position
            /\ pc' = "plain"
            /\ Min(i', Len(lines) + 1) = Min(TableEnd(lines, i) + 1, Len(lines) + 1)
       /\ CoordEmptyTable =>
            /\ draws' = draws
            /\ last_y_left' = last_y_left /\ last_y_right' = last_y_right
            /\ pc' = "coord"
            /\ bi' = bi + 1]_vars

\* what is drawn and raised: nothing, in both modes
C22_NothingDrawn ==
    [][(PlainEmptyTable \/ CoordEmptyTable) => (draws' = draws /\ pc' = pc)]_vars

\* the cursor of the plain engine, when it is not below the bottom margin
C22_PlainCursor ==
    [][(PlainEmptyTable /\ y_position >= bottom_margin) => y_position' = y_position]_vars

\* the column positions of the coordinate engine, when the block opens no page
C22_CoordColumns ==
    [][(CoordEmptyTable /\ page' = page) =>
          (last_y_left' = last_y_left /\ last_y_right' = last_y_right /\ bi' = bi + 1)]_vars

\* the lines consumed, when the opening line does not hold the close marker
C22_PlainNextLine ==
    [][(PlainEmptyTable /\ ~IsTableClose(lines[i])) =>
          Min(i', Len(lines) + 1) = Min(TableEnd(lines, i) + 1, Len(lines) + 1)]_vars

(***************************************************************************)
(* The wrapping loops                                                      *)
(***************************************************************************)
MaxWrapWords == 3

\* a word of n letters
Word(c_, n_) ==
    Once({(
    [k \in 1..n |-> c]
    ) : c \in {c_}, n \in {n_}})

\* words around the limits of coordinate mode: 15 characters for a text or a list
\* item of a block 100 units wide, 13 for the single cell of its table
CoordWrapWords == {Word("p", 6), Word("q", 7), Word("r", 8), Word("s", 16)}
\* words around the limit of a first-level header line of plain mode (62)
HeaderWrapWords == {Word("p", 30), Word("q", 31), Word("s", 63)}
\* words around the limit of a list item of plain mode (110)
ItemWrapWords == {Word("p", 54), Word("q", 55), Word("s", 111)}

WrapTexts(words_) ==
    Once({(
    {Join(ws, <<" ">>) : ws \in SeqUpTo(words, MaxWrapWords) \ {<<>>}}
    ) : words \in {words_}})

\* coordinate mode: one block that is a text, a list or a table of one or two cells,
\* alone or after a block that is empty after cleaning
WrapBlocks ==
    {Block(t, 0, 100, FALSE, 0) : t \in WrapTexts(CoordWrapWords)}
    \cup {Block(<<"-", " ">> \o t, 0, 100, FALSE, 0) : t \in WrapTexts(CoordWrapWords)}
    \cup {Block(<<"<", "t", "a", "b", "l", "e", ">", "<", "t", "r", ">", "<", "t", "d", ">">> \o t \o <<"<", "/", "t", "d", ">", "<", "/", "t", "r", ">", "<", "/", "t", "a", "b", "l", "e", ">">>, 0, 100, FALSE, 0)
            : t \in WrapTexts(CoordWrapWords)}
    \cup {Block(<<"<", "t", "a", "b", "l", "e", ">", "<", "t", "r", ">", "<", "t", "d", ">">> \o t \o <<"<", "/", "t", "d", ">", "<", "t", "d", ">">> \o t \o <<"<", "/", "t", "d", ">", "<", "/", "t", "r", ">", "<", "/", "t", "a", "b", "l", "e", ">">>,
                0, 100, FALSE, 0) : t \in WrapTexts({Word("p", 6), Word("q", 7)})}

\* plain mode: a header line, a list line of one or two items, a text and a table
WrapMarkdowns ==
    {<<"#", " ">> \o t \o <<NL>> : t \in WrapTexts(HeaderWrapWords)}
    \cup {<<"-", " ">> \o t \o <<NL>> : t \in WrapTexts(ItemWrapWords)}
    \cup {<<"-", " ">> \o t \o <<" ", "-", " ">> \o t \o <<NL>> : t \in WrapTexts({Word("q", 55)})}
    \cup {<<"c", "c", NL, NL, "<", "t", "a", "b", "l", "e", ">", "<", "t", "r", ">", "<", "t", "d", ">", "b", " ", "c", "<", "/", "t", "d", ">", "<", "/", "t", "r", ">", "<", "/", "t", "a", "b", "l", "e", ">", NL>>}

InitWrap ==
    \/ \E md \in WrapMarkdowns : ConversionEntry("convert_plain_text", md, <<>>)
    \/ \E b \in WrapBlocks :
       \E bs \in {<<b>>, <<Block(<<"<", "c", "e", "n", "t", "e", "r", ">", "<", "/", "c", "e", "n", "t", "e", "r", ">">>, 0, 50, FALSE, 0), b>>} :
          ConversionEntry("convert_with_coordinates", <<>>, bs)

SpecWrap == InitWrap /\ [][NextEngines]_vars

\* the draw commands issued for the source line or block k, in order
SrcDraws(k) == SelectSeq(draws, LAMBDA d : d.src = k)

\* the texts drawn after each command of the kind sep, one group per such command
RECURSIVE GroupsBy(_, _)
GroupsBy(ds_, sep_) ==
    Once({(
    IF ds = <<>> THEN <<>>
    ELSE IF ds[Len(ds)].kind = sep
         THEN Append(GroupsBy(SubSeq(ds, 1, Len(ds) - 1), sep), <<>>)
         ELSE [GroupsBy(SubSeq(ds, 1, Len(ds) - 1), sep)
                  EXCEPT ![Len(GroupsBy(SubSeq(ds, 1, Len(ds) - 1), sep))] =
                      Append(@, ds[Len(ds)].text)]
    ) : ds \in {ds_}, sep \in {sep_}})

\* the group of the cell c of the row r: the commands of a table are the top border,
\* then for every row its left border, every cell followed by its right border, and
\* the border below the row
CellGroup(rows_, r_, c_) ==
    Once({(
    1 + SumSeq([q \in 1..(r - 1) |-> Len(rows[q]) + 2]) + c
    ) : rows \in {rows_}, r \in {r_}, c \in {c_}})

\* the lines `out` are a greedy wrap of `words` within `limit`, a character being
\* `unit` wide: every line is one or more whole words joined by single blanks, the
\* words are those of the text in their order, a line of several words is within the
\* limit, and a line ends only where the next word did not fit
GreedyWrap(out_, words_, limit_, unit_) ==
    Once({(
    /\ \A n \in 1..Len(out) :
          /\ out[n] # <<>>
          /\ out[n] = Join(SplitWhitespace(out[n]), <<" ">>)
          /\ \/ ByteLen(out[n]) * unit <= limit
             \/ Len(SplitWhitespace(out[n])) = 1
    /\ Concat([n \in 1..Len(out) |-> SplitWhitespace(out[n])]) = words
    /\ \A n \in 2..Len(out) :
          (ByteLen(out[n - 1]) + 1 + ByteLen(SplitWhitespace(out[n])[1])) * unit > limit
    ) : out \in {out_}, words \in {words_}, limit \in {limit_}, unit \in {unit_}})

\* the cells of a table drawn by ds are greedy wraps within the limits of the columns
CellsWrapped(ds_, rows_, max_width_, font_size_) ==
    Once({(
    rows # <<>> =>
        /\ Len(GroupsBy(ds, "line")) >= CellGroup(rows, Len(rows) + 1, 0)
        /\ \A r \in 1..Len(rows) : \A c \in 1..Len(rows[r]) :
              GreedyWrap(GroupsBy(ds, "line")[CellGroup(rows, r, c)],
                         SplitWhitespace(rows[r][c]),
                         TableGeometry(rows, max_width, font_size).max_chars_per_line[c], 1)
    ) : ds \in {ds_}, rows \in {rows_}, max_width \in {max_width_}, font_size \in {font_size_}})

\* the items of a list drawn by ds are greedy wraps within the limit
ItemsWrapped(ds_, item_texts_, limit_, unit_) ==
    Once({(
    /\ Len(GroupsBy(ds, "bullet")) = Len(item_texts)
    /\ \A n \in 1..Len(item_texts) :
          GreedyWrap(GroupsBy(ds, "bullet")[n], SplitWhitespace(item_texts[n]), limit, unit)
    ) : ds \in {ds_}, item_texts \in {item_texts_}, limit \in {limit_}, unit \in {unit_}})

\* the line k of plain mode (main.rs 1716-1746, 1773-1789, 1820-1878)
PlainLineWrapped(k_) ==
    Once({(
    IF is_list_item(Trim(lines[k]))
    THEN ItemsWrapped(SrcDraws(k),
                      [n \in 1..Len(split_list_items(Trim(lines[k]))) |->
                          strip_leading_marker(Trim(split_list_items(Trim(lines[k]))[n]))],
                      plain_usable_width - 2 * AvgCharWidth(10 * PT) - 1 * MM,
                      AvgCharWidth(10 * PT))
    ELSE IF IsTableOpen(lines[k])
    THEN CellsWrapped(SrcDraws(k), parse_table_html(TableBlock(lines, k)),
                      plain_usable_width, 9 * PT)
    ELSE GreedyWrap([n \in 1..Len(SrcDraws(k)) |-> SrcDraws(k)[n].text],
                    SplitWhitespace(PlainStyle(parse_html_tags(Trim(lines[k])).text).text),
                    plain_usable_width - 1 * MM,
                    AvgCharWidth(PlainStyle(parse_html_tags(Trim(lines[k])).text).font_size))
    ) : k \in {k_}})

\* the limit of the block: max_chars of main.rs 1524-1525
BlockMaxChars(block_) ==
    Once({(
    BlockGeometry(block, BlockText(block).header_level,
                  [page |-> 1, page_start_y |-> 0, last_y_left |-> 0, last_y_right |-> 0]
                 ).max_chars
    ) : block \in {block_}})

\* the block b of coordinate mode (main.rs 1529-1543, 1555-1593, 1599-1633)
CoordBlockWrapped(b_) ==
    Once({(
    IF Contains(ToLower(BlockText(sorted_blocks[b]).text), <<"<", "t", "a", "b", "l", "e", ">">>)
    THEN CellsWrapped(SrcDraws(b), parse_table_html(BlockText(sorted_blocks[b]).text),
                      BlockWidth(sorted_blocks[b].width,
                                 Min(Scaled(sorted_blocks[b].x) + margin, usable_width)),
                      8 * PT)
    ELSE IF BlockText(sorted_blocks[b]).is_list
    THEN ItemsWrapped(SrcDraws(b),
                      [n \in 1..Len(split_list_items(BlockText(sorted_blocks[b]).text)) |->
                          strip_leading_marker(
                              split_list_items(BlockText(sorted_blocks[b]).text)[n])],
                      BlockMaxChars(sorted_blocks[b]), 1)
    ELSE ByteLen(BlockText(sorted_blocks[b]).text) > BlockMaxChars(sorted_blocks[b]) =>
            GreedyWrap([n \in 1..Len(SrcDraws(b)) |-> SrcDraws(b)[n].text],
                       SplitWhitespace(BlockText(sorted_blocks[b]).text),
                       BlockMaxChars(sorted_blocks[b]), 1)
    ) : b \in {b_}})

\* C23: in every wrapping loop (the text and the list items of both modes, the cells
\* of the bordered table) every line drawn is one or more whole words of the text,
\* in their order; a line of more than one word is within the limit of its caller;
\* a line ends before a word only when that word and one blank did not fit on it;
\* a word longer than the limit is drawn whole on a line of its own.
C23_GreedyWrap ==
    /\ (arg.fn = "convert_plain_text" /\ pc \in {"plain", "done"}) =>
          \A k \in 1..Len(lines) : SrcDraws(k) # <<>> => PlainLineWrapped(k)
    /\ (arg.fn = "convert_with_coordinates" /\ pc \in {"coord", "done"}) =>
          \A b \in 1..Len(sorted_blocks) : SrcDraws(b) # <<>> => CoordBlockWrapped(b)

\* reached: a header of plain mode drawn on two lines, the first of two words, and a
\* block of coordinate mode drawn with a word longer than its limit between two lines
C23_Witness ==
    /\ pc = "done"
    /\ \/ /\ arg.fn = "convert_plain_text"
          /\ Len(SrcDraws(1)) = 2
          /\ Len(SplitWhitespace(SrcDraws(1)[1].text)) = 2
          /\ SrcDraws(1)[1].kind = "text"
       \/ /\ arg.fn = "convert_with_coordinates"
          /\ Len(SrcDraws(1)) = 3
          /\ SrcDraws(1)[2].kind = "text"
          /\ ByteLen(SrcDraws(1)[2].text) > BlockMaxChars(sorted_blocks[1])

(***************************************************************************)
(* The two passes of the bordered table                                    *)
(***************************************************************************)
MaxCellWords == 4

\* words around the limit of 13 characters of the single column of a table in a
\* block 100 units wide, and around the limits 6 and 6 of two columns of equal width
CellWords == {Word("p", 1), Word("q", 2), Word("r", 5), Word("s", 6), Word("t", 7), Word("u", 14)}

CellTexts == WrapTexts(CellWords) \cup {Join(ws, <<" ">>) : ws \in [1..MaxCellWords -> CellWords]}

\* a table of one cell, and tables of one and two rows of two cells of three words
CellBlocks ==
    {Block(<<"<", "t", "a", "b", "l", "e", ">", "<", "t", "r", ">", "<", "t", "d", ">">> \o t \o <<"<", "/", "t", "d", ">", "<", "/", "t", "r", ">", "<", "/", "t", "a", "b", "l", "e", ">">>, 0, 100, FALSE, 0)
        : t \in CellTexts}
    \cup {Block(<<"<", "t", "a", "b", "l", "e", ">", "<", "t", "r", ">", "<", "t", "d", ">">> \o t \o <<"<", "/", "t", "d", ">", "<", "t", "d", ">">> \o u \o <<"<", "/", "t", "d", ">", "<", "/", "t", "r", ">", "<", "/", "t", "a", "b", "l", "e", ">">>,
                0, 100, FALSE, 0)
            : t \in WrapTexts({Word("p", 1), Word("r", 5), Word("t", 7)}),
              u \in {Join(<<Word("r", 5), Word("s", 6), Word("p", 1)>>, <<" ">>)}}
    \cup {Block(<<"<", "t", "a", "b", "l", "e", ">", "<", "t", "r", ">", "<", "t", "d", ">">> \o t \o <<"<", "/", "t", "d", ">", "<", "t", "d", ">", "p", "<", "/", "t", "d", ">", "<", "/", "t", "r", ">", "<", "t", "r", ">", "<", "t", "d", ">">> \o u
                \o <<"<", "/", "t", "d", ">", "<", "/", "t", "r", ">", "<", "/", "t", "a", "b", "l", "e", ">">>, 0, 100, FALSE, 0)
            : t \in {Join(<<Word("r", 5), Word("s", 6), Word("p", 1)>>, <<" ">>)},
              u \in WrapTexts({Word("p", 1), Word("t", 7)})}

InitCellLines ==
    \E b \in CellBlocks :
    \E bs \in {<<b>>, <<Block(<<"<", "c", "e", "n", "t", "e", "r", ">", "<", "/", "c", "e", "n", "t", "e", "r", ">">>, 0, 50, FALSE, 0), b>>} :
        ConversionEntry("convert_with_coordinates", <<>>, bs)

SpecCellLines == InitCellLines /\ [][NextOrder]_vars

\* the border commands issued for the block b, in order
BorderDraws(b) == SelectSeq(SrcDraws(b), LAMBDA d : d.kind = "line")

\* the height the first pass gave the row r: the length of its left border
DrawnRowHeight(b_, rows_, r_) ==
    Once({(
    BorderDraws(b)[CellGroup(rows, r, 1)].y - BorderDraws(b)[CellGroup(rows, r, 1)].y2
    ) : b \in {b_}, rows \in {rows_}, r \in {r_}})

\* the lines the second pass drew for the cell c of the row r
DrawnCellLines(b, rows, r, c) == GroupsBy(SrcDraws(b), "line")[CellGroup(rows, r, c)]

\* C30: in the bordered table the text of a cell does not overflow its row: for every
\* cell the number of lines drawn (second pass) is at most the number of lines the
\* height of its row was computed from (first pass).
C30_CellFitsRow ==
    pc \in {"coord", "done"} =>
        \A b \in 1..Len(sorted_blocks) :
            SrcDraws(b) # <<>> =>
                \A rows \in {parse_table_html(BlockText(sorted_blocks[b]).text)} :
                \A r \in 1..Len(rows) : \A c \in 1..Len(rows[r]) :
                    Len(DrawnCellLines(b, rows, r, c)) * base_line_height + cell_padding * 2
                        <= DrawnRowHeight(b, rows, r)

\* reached: a cell drawn on two lines in a row as high as three
C30_Witness ==
    /\ pc = "done"
    /\ Len(sorted_blocks) = 1
    /\ SrcDraws(1) # <<>>
    /\ \E rows \in {parse_table_html(BlockText(sorted_blocks[1]).text)} :
          /\ Len(rows) = 1 /\ Len(rows[1]) = 1
          /\ Len(DrawnCellLines(1, rows, 1, 1)) = 2
          /\ DrawnRowHeight(1, rows, 1) = 3 * base_line_height + cell_padding * 2

(***************************************************************************)
(* The cleaning profiles on tags and sentinels between other text          *)
(***************************************************************************)
MaxTagPieces == 3

\* text, a line break, a sentinel line and a directive line between blank lines, a
\* bounding-box pair on one line and across a line break, a directive tag, the tags
\* of a reference span
TagPieces ==
    {<<"a">>, <<NL>>,
     <<NL, NL, "-", "-", "-", "P", "A", "G", "E", "_", "B", "R", "E", "A", "K", "-", "-", "-", NL, NL>>,
     <<NL, NL, "<", "|", "t", "h", "i", "n", "k", "|", ">", NL, NL>>,
     <<"<", "|", "d", "e", "t", "|", ">", "x", "<", "|", "/", "d", "e", "t", "|", ">">>,
     <<"<", "|", "d", "e", "t", "|", ">", "x", NL, "y", "<", "|", "/", "d", "e", "t", "|", ">">>,
     <<"<", "|", "g", "r", "o", "u", "n", "d", "i", "n", "g", "|", ">">>,
     <<"<", "|", "t", "h", "i", "n", "k", "|", ">">>,
     <<"<", "|", "r", "e", "f", "|", ">">>, <<"<", "|", "/", "r", "e", "f", "|", ">">>}
TagTexts == {Concat(p) : p \in SeqUpTo(TagPieces, MaxTagPieces)}

InitCleanTags ==
    /\ pc = "call"
    /\ arg \in {[fn |-> f, text |-> t] :
                  f \in {"clean_markdown", "clean_markdown_for_plain"}, t \in TagTexts}
    /\ ret = NoRet
    /\ ParserIdle
    /\ LayoutIdle

SpecCleanTags == InitCleanTags /\ [][NextClean]_vars

\* three newline characters in a row
HasBlankRun(s) == Contains(s, <<NL, NL, NL>>)

\* C24: the output of clean_markdown holds no run of three or more newline
\* characters, also when a sentinel line or a directive line stands between blank
\* lines of the input.
C24_NoBlankRun ==
    (pc = "return" /\ arg.fn = "clean_markdown") => ~HasBlankRun(ret.once)

\* the same for the inputs without a sentinel line
C24_NoBlankRunWithoutSentinel ==
    (pc = "return" /\ arg.fn = "clean_markdown" /\ ~Contains(arg.text, PAGE_BREAK)) =>
        ~HasBlankRun(ret.once)

\* the start of the first bounding-box tag pair from position k on, 0 when none
FirstDet(s_, k_) ==
    Once({(
    IF \A r \in k..Len(s) : PairEnd(s, r, DET_OPEN, DET_CLOSE, TRUE) = NoMatch THEN 0
    ELSE CHOOSE x \in k..Len(s) :
            /\ PairEnd(s, x, DET_OPEN, DET_CLOSE, TRUE) # NoMatch
            /\ \A y \in k..(x - 1) : PairEnd(s, y, DET_OPEN, DET_CLOSE, TRUE) = NoMatch
    ) : s \in {s_}, k \in {k_}})

\* the bounding-box tag pairs of a text with their payloads, from left to right
RECURSIVE DetPairs(_, _)
DetPairs(s_, k_) ==
    Once({(
    IF FirstDet(s, k) = 0 THEN <<>>
    ELSE <<Slice(s, FirstDet(s, k), PairEnd(s, FirstDet(s, k), DET_OPEN, DET_CLOSE, TRUE))>>
         \o DetPairs(s, PairEnd(s, FirstDet(s, k), DET_OPEN, DET_CLOSE, TRUE) + 1)
    ) : s \in {s_}, k \in {k_}})

\* a directive tag that starts a line of the text
HasDirectiveLine(s_) ==
    Once({(
    \E k \in 1..Len(s) :
        LineStart(s, k) /\ (GroundingEnd(s, k) # NoMatch \/ ThinkEnd(s, k) # NoMatch
                            \/ OcrEnd(s, k) # NoMatch)
    ) : s \in {s_}})

\* C25: clean_markdown keeps every bounding-box tag pair of its input, with its
\* payload, unchanged and in the same order, also a pair that stands on a directive
\* line or between the opening and the closing tag of a reference span.
C25_DetKept ==
    (pc = "return" /\ arg.fn = "clean_markdown") =>
        DetPairs(ret.once, 1) = DetPairs(arg.text, 1)

\* the same for the inputs without a directive line and without a reference tag
C25_DetKeptOutsideRemovals ==
    (pc = "return" /\ arg.fn = "clean_markdown"
     /\ ~HasDirectiveLine(arg.text) /\ ~Contains(arg.text, REF_OPEN)) =>
        DetPairs(ret.once, 1) = DetPairs(arg.text, 1)

\* a bracket-style control tag anywhere in the text: "<|", characters other than
\* '|', "|>"
HasControlTag(s_) ==
    Once({(
    \E k \in 1..Len(s) : \E e \in (k + 3)..(Len(s) - 1) :
        /\ MatchAt(s, k, <<"<", "|">>) /\ MatchAt(s, e, <<"|", ">">>)
        /\ \A r \in (k + 2)..(e - 1) : s[r] # "|"
    ) : s \in {s_}})

\* C26: the output of clean_markdown_for_plain holds no bracket-style control tag
\* and no bounding-box tag or payload, wherever on a line the tag stands and also
\* when a bounding-box tag pair spans a line break.
C26_NoControlTag ==
    (pc = "return" /\ arg.fn = "clean_markdown_for_plain") =>
        /\ ~HasControlTag(ret.once)
        /\ ~Contains(ret.once, <<"x">>)
        /\ ~Contains(ret.once, <<"y">>)

\* no line of the output starts with a tag
C26_NoTagAtLineStart ==
    (pc = "return" /\ arg.fn = "clean_markdown_for_plain") =>
        \A k \in 1..Len(ret.once) :
            LineStart(ret.once, k) => AllTagsEnd(ret.once, k) = NoMatch

\* the characters of a text that are not whitespace, in order
NonWhitespace(s) == SelectSeq(s, LAMBDA c : ~IsWs(c))

\* C27: split_list_items neither drops nor duplicates text: for a text that is a
\* list, the non-whitespace characters of the items returned, taken together in order,
\* are those of the text; what the numbered rule collected before it gave way to a
\* later rule is not returned a second time.
C27_ItemsPartition ==
    (pc = "return" /\ arg.fn = "split_list_items") =>
        NonWhitespace(Concat(ret.items)) = NonWhitespace(arg.text)

\* the same for the texts that hold no numbered marker
C27_ItemsPartitionUnnumbered ==
    (pc = "return" /\ arg.fn = "split_list_items" /\ NumMarkerStarts(Trim(arg.text), 1) = <<>>) =>
        NonWhitespace(Concat(ret.items)) = NonWhitespace(arg.text)

(***************************************************************************)
(* The blocks of two images around a page-break sentinel                   *)
(***************************************************************************)
MaxImageBlocks == 2

\* the blocks of one image as parse_ocr_blocks emits them after a sentinel line (or
\* without one for the first image): the first in source order carries the flag
ImageBlocks(n_, flagged_) ==
    Once({(
    {[k \in 1..Len(bs) |-> Block(bs[k].t, 0, bs[k].y, flagged /\ k = 1, n)]
        : bs \in SeqUpTo({[t |-> t, y |-> y]
                            : t \in {<<"a">>, <<"<", "c", "e", "n", "t", "e", "r", ">", "<", "/", "c", "e", "n", "t", "e", "r", ">">>}, y \in {100, 200, 1000}},
                         MaxImageBlocks) \ {<<>>}}
    ) : n \in {n_}, flagged \in {flagged_}})

\* image 0, a page-break sentinel, image 1
InitImages ==
    \E first \in ImageBlocks(0, FALSE) : \E second \in ImageBlocks(1, TRUE) :
        ConversionEntry("convert_with_coordinates", <<>>, first \o second)

SpecImages == InitImages /\ [][NextOrder]_vars

\* C28: when a page-break sentinel separates the blocks of two images, no block of
\* the later image is drawn on a page that holds a block of the earlier image, also
\* when the block that carries the flag is not the first of its image after sorting.
C28_ImagesApart ==
    \A m, n \in 1..Len(draws) :
        sorted_blocks[draws[m].src].image_index < sorted_blocks[draws[n].src].image_index
            => draws[m].page < draws[n].page

\* the flagged block is the first block of its image in processing order
FlagSortedFirst ==
    \A k \in 1..Len(sorted_blocks) :
        sorted_blocks[k].force_page_break =>
            (k = 1 \/ sorted_blocks[k - 1].image_index < sorted_blocks[k].image_index)

\* the same when the flagged block is processed first of its image
C28_ImagesApartFlagFirst ==
    (pc \in {"coord", "done"} /\ FlagSortedFirst) => C28_ImagesApart

(***************************************************************************)
(* A break and an overflow at the same block                               *)
(***************************************************************************)
MaxDoubleBlocks == 2

\* texts of two images within the first page height (y = 100), below it (1500) and
\* far below it (3000), with and without the break flag, and a text that is empty
\* after cleaning
DoubleBlocks ==
    {Block(<<"a">>, 0, y, f, n) : y \in {100, 1500, 3000}, f \in BOOLEAN, n \in {0, 1}}
    \cup {Block(<<"<", "c", "e", "n", "t", "e", "r", ">", "<", "/", "c", "e", "n", "t", "e", "r", ">">>, 0, 100, f, 0) : f \in BOOLEAN}

InitDouble ==
    \E bs \in SeqUpTo(DoubleBlocks, MaxDoubleBlocks) :
        /\ bs # <<>>
        /\ ConversionEntry("convert_with_coordinates", <<>>, bs)

SpecDouble == InitDouble /\ [][NextOrder]_vars

\* the block m was placed and its first page is at most one after the last page in
\* use before it
OnePageBefore(m_) ==
    Once({(
    PagesOf(m) # {} => \E p \in PagesOf(m) : p <= PageBefore(m) + 1
    ) : m \in {m_}})

\* C29: at most one page is added for a block before it is placed, so no page
\* without a draw command lies between two placed blocks; a block for which a break
\* (forced or by a backward jump) and the overflow condition both hold starts
\* exactly one new page.
C29_OnePagePerBlock ==
    \A m \in 1..Len(sorted_blocks) : OnePageBefore(m)

\* the same for the blocks that lie within the usable height
C29_OnePageWithinHeight ==
    \A m \in 1..Len(sorted_blocks) :
        Scaled(sorted_blocks[m].y) <= usable_height => OnePageBefore(m)

\* the same for the blocks placed with no break pending: one step adds at most one page
C29_OnePageWithoutBreak ==
    [][(/\ pc = "coord" /\ bi <= Len(sorted_blocks)
        /\ ~force_new_page /\ ~sorted_blocks[bi].force_page_break
        /\ ~BackwardJump(prev_block_y, sorted_blocks[bi].y)) => page' <= page + 1]_vars

====
